---- MODULE Spec2Model ----
(***************************************************************************)
(* Model of the MetaMerge backend orchestration core:                      *)
(*   - the asynchronous deep-research job subsystem (JobStoreService,      *)
(*     DeepResearchWorkerService, DeepResearchJobController), and          *)
(*   - the merge orchestrator (MergeService.merge) with its early judge.   *)
(* The two subsystems share no state; each has its own specification       *)
(* (JobSpec, JobLiveSpec, MergeSpec) in which the other one stays idle.    *)
(***************************************************************************)
EXTENDS Integers, Sequences, FiniteSets, TLC

VARIABLES
  jobs,               \* JobStoreService.jobs: Map in insertion order; jobId = index
  isProcessing,       \* DeepResearchWorkerService.isProcessing
  processingInterval, \* DeepResearchWorkerService.processingInterval # null
  immediates,         \* jobIds with a pending setImmediate(processJob) callback
  pipelines,          \* in-flight performDeepResearch promises: [job, run]
  timers,             \* pending setTimeout progress callbacks: [job, run, idx]
  researchCalls,      \* per job: number of performDeepResearch invocations so far
  proc,               \* process lifecycle: "up", "closing" (signal handled), "exited"
  mcfg,               \* merge: configuration and request of the orchestration
  mpc,                \* merge: position of merge() ("idle" when not invoked)
  calls,              \* merge: per model index, Null (pending) or Some(result)
  completed,          \* merge: the model indices in the order their calls settled
  modelResults,       \* merge: modelResults array
  successfulResults,  \* merge: successfulResults array
  judgeStarted,       \* merge: judgeStarted flag
  judges,             \* merge: every judgeAndMerge call launched, in launch order
  judgePromise,       \* merge: index into judges of judgePromise, 0 = null
  debateRounds,       \* merge: debateRounds (<<>> while undefined)
  finalAnswersForJudge, \* merge: finalAnswersForJudge
  outcome,            \* merge: what merge() returned or threw
  harness,            \* a function applied on its own: "idle", "call", "done"
  args,               \* ... its arguments (the last store call, for the store)
  ret                 \* ... what it returned

jobVars == <<jobs, isProcessing, processingInterval, immediates, pipelines,
             timers, researchCalls, proc>>
mergeVars == <<mcfg, mpc, calls, completed, modelResults, successfulResults, judgeStarted,
               judges, judgePromise, debateRounds, finalAnswersForJudge, outcome>>
pureVars == <<harness, args, ret>>
vars == <<jobs, isProcessing, processingInterval, immediates, pipelines,
          timers, researchCalls, proc, mcfg, mpc, calls, completed, modelResults,
          successfulResults, judgeStarted, judges, judgePromise, debateRounds,
          finalAnswersForJudge, outcome, harness, args, ret>>

(***************************************************************************)
(* Bounds of the model.                                                    *)
(***************************************************************************)
MaxJobs == 2
MaxModels == 3
\* Largest min_models_for_judge read from config.json (0 = option absent).
MaxParsedMin == 3
\* The max_debate_rounds values read from config.json (0 = option absent).
\* merge reads of the debate only whether it recorded a round.
ParsedDebateRounds == {1}

(***************************************************************************)
(* Job Store                                                               *)
(***************************************************************************)
QUEUED == "queued"
RUNNING == "running"
COMPLETED == "completed"
FAILED == "failed"
JobStatus == {QUEUED, RUNNING, COMPLETED, FAILED}

\* An optional field that is undefined (startedAt?, completedAt?, ...).
Undefined == -1

\* result / error are null (<<>>) or hold one value (<<v>>).
Null == <<>>
Some(v) == <<v>>

\* new Date() as seen by one job: a reading later than the job's last stamp.
\* (Timestamps are only ever compared within one job.)
Now(job) == job.updatedAt + 1

\* Object.assign(job, updates): the fields of updates overwrite those of job.
ObjectAssign(job, updates) ==
  [f \in DOMAIN job |-> IF f \in DOMAIN updates THEN updates[f] ELSE job[f]]

NewJob ==
  [status |-> QUEUED, progress |-> 0,
   currentIteration |-> Undefined, totalIterations |-> Undefined,
   estimatedRemainingSeconds |-> Undefined,
   result |-> Null, error |-> Null,
   createdAt |-> 0, updatedAt |-> 0,
   startedAt |-> Undefined, completedAt |-> Undefined]

createJob(js) == Append(js, NewJob)

getJob(js, jobId) == IF jobId \in DOMAIN js THEN Some(js[jobId]) ELSE Null

\* Mutant: startedAt is stamped on every status update.
updateJobStatus_Restamps(js, jobId, status, updates) ==
  IF jobId \notin DOMAIN js THEN js
  ELSE LET job == js[jobId]
           now == Now(job)
           j1 == [job EXCEPT !.startedAt = now]
           j2 == IF status = COMPLETED \/ status = FAILED
                 THEN [j1 EXCEPT !.completedAt = now] ELSE j1
           j3 == ObjectAssign(j2, updates)
       IN [js EXCEPT ![jobId] = [j3 EXCEPT !.status = status, !.updatedAt = now]]

updateJobStatus(js, jobId, status, updates) ==
  IF jobId \notin DOMAIN js THEN js
  ELSE LET job == js[jobId]
           now == Now(job)
           j1 == IF status = RUNNING /\ job.startedAt = Undefined
                 THEN [job EXCEPT !.startedAt = now] ELSE job
           j2 == IF status = COMPLETED \/ status = FAILED
                 THEN [j1 EXCEPT !.completedAt = now] ELSE j1
           j3 == ObjectAssign(j2, updates)
       IN [js EXCEPT ![jobId] = [j3 EXCEPT !.status = status, !.updatedAt = now]]

\* The number NaN (not a number), which arithmetic, Math.round, Math.max and
\* Math.min propagate.
NaN == -1000000

\* Mutant: the quotient is truncated downwards instead of rounded.
roundToMultipleOf5_Floor(progress) ==
  IF progress = NaN THEN NaN ELSE (progress \div 5) * 5

\* Math.round(progress / 5) * 5; Math.round rounds halves towards +infinity.
roundToMultipleOf5(progress) ==
  IF progress = NaN THEN NaN ELSE ((2 * progress + 5) \div 10) * 5

Max(a, b) == IF a = NaN \/ b = NaN THEN NaN ELSE IF a >= b THEN a ELSE b
Min(a, b) == IF a = NaN \/ b = NaN THEN NaN ELSE IF a <= b THEN a ELSE b

updateProgress(js, jobId, progress, estimatedRemainingSeconds, currentIteration, totalIterations) ==
  IF jobId \notin DOMAIN js THEN js
  ELSE LET job == js[jobId]
           roundedProgress == roundToMultipleOf5(progress)
       IN [js EXCEPT ![jobId] =
            [job EXCEPT
              !.progress = Max(0, Min(100, roundedProgress)),
              !.estimatedRemainingSeconds =
                 IF estimatedRemainingSeconds # Undefined
                 THEN estimatedRemainingSeconds ELSE @,
              !.currentIteration =
                 IF currentIteration # Undefined THEN currentIteration ELSE @,
              !.totalIterations =
                 IF totalIterations # Undefined THEN totalIterations ELSE @,
              !.updatedAt = Now(job)]]

setResult(js, jobId, result) ==
  updateJobStatus(js, jobId, COMPLETED,
                  [result |-> Some(result), progress |-> 100])

\* Mutant: the failure is recorded without its error.
setError_DropsError(js, jobId, error) ==
  updateJobStatus(js, jobId, FAILED, [progress |-> 0])

setError(js, jobId, error) ==
  updateJobStatus(js, jobId, FAILED,
                  [error |-> Some(error), progress |-> 0])

\* Mutant: the queued jobs are listed newest first.
getQueuedJobs_NewestFirst(js) ==
  LET queued == SelectSeq([i \in DOMAIN js |-> i], LAMBDA i : js[i].status = QUEUED)
  IN [k \in DOMAIN queued |-> queued[Len(queued) + 1 - k]]

\* The jobIds of the queued jobs, in Map (insertion) order.
getQueuedJobs(js) ==
  SelectSeq([i \in DOMAIN js |-> i], LAMBDA i : js[i].status = QUEUED)

(***************************************************************************)
(* Async Worker                                                            *)
(***************************************************************************)
\* Error messages are sequences of case-sensitive tokens; String.includes is
\* membership of the token.
Includes(message, token) == \E i \in DOMAIN message : message[i] = token

\* callModel's Timeout error: `Timeout after ${timeoutMs}ms`.
TimeoutMessage == <<"Timeout", "after", "ms">>
\* `OpenRouter API error: ${status} - ${JSON.stringify(data)}` with its body.
ApiErrorMessage(body) == <<"OpenRouter", "API", "error">> \o body
NetworkErrorMessage == <<"Network", "error">>
EmptyResponseMessage == <<"Empty", "response", "from", "model">>
NoAnswersMessage == <<"No", "successful", "model", "answers", "for", "debate">>

\* Errors performDeepResearch rejects with: its own, or one of the judge call's.
PipelineErrors == {NoAnswersMessage, TimeoutMessage}

\* What performDeepResearch resolves with, as far as the worker reads it:
\* researchContext.results and citations (urls).
DeepResearchResults ==
  {[results |-> <<>>, citations |-> <<>>],
   [results |-> <<"u1">>, citations |-> <<"u1">>]}

progressMilestones == <<10, 30, 50, 70, 100>>
\* estimatedSeconds passed with the milestones of iterations 1..5.
estimatedSeconds == <<300, 240, 180, 120, 0>>
totalIterations == 5

\* Mutant: 'invalid' is looked for first.
getErrorCode_InvalidFirst(message) ==
  IF Includes(message, "invalid") THEN "INVALID_INPUT"
  ELSE IF Includes(message, "timeout") THEN "RESEARCH_TIMEOUT"
  ELSE IF Includes(message, "rate limit") THEN "RATE_LIMIT_EXCEEDED"
  ELSE "RESEARCH_FAILED"

getErrorCode(message) ==
  IF Includes(message, "timeout") THEN "RESEARCH_TIMEOUT"
  ELSE IF Includes(message, "rate limit") THEN "RATE_LIMIT_EXCEEDED"
  ELSE IF Includes(message, "invalid") THEN "INVALID_INPUT"
  ELSE "RESEARCH_FAILED"

\* Mutant: the citations are looked at before the sources.
JobResult_CitationsFirst(result) ==
  LET usedExternalSources == Len(result.results) > 0
      hasCitations == Len(result.citations) > 0
      fallbackReason == IF ~hasCitations THEN Some("NO_CITATIONS_EXTRACTED")
                        ELSE IF ~usedExternalSources THEN Some("NO_EXTERNAL_SOURCES")
                        ELSE Null
  IN [citations |-> result.citations,
      researchSources |-> result.results,
      metadata |-> [usedExternalSources |-> usedExternalSources,
                    researchSourcesCount |-> Len(result.results),
                    citationsCount |-> Len(result.citations),
                    fallbackReason |-> fallbackReason]]

\* The result object processJob stores (lines 120-155).
JobResult(result) ==
  LET usedExternalSources == Len(result.results) > 0
      hasCitations == Len(result.citations) > 0
      fallbackReason == IF ~usedExternalSources THEN Some("NO_EXTERNAL_SOURCES")
                        ELSE IF ~hasCitations THEN Some("NO_CITATIONS_EXTRACTED")
                        ELSE Null
  IN [citations |-> result.citations,
      researchSources |-> result.results,
      metadata |-> [usedExternalSources |-> usedExternalSources,
                    researchSourcesCount |-> Len(result.results),
                    citationsCount |-> Len(result.citations),
                    fallbackReason |-> fallbackReason]]

\* Mutants of the guard: no status check at all / only finished jobs rejected.
processJobAccepts_AnyStatus(jobId) == getJob(jobs, jobId) # Null
processJobAccepts_NotFinished(jobId) ==
  getJob(jobs, jobId) # Null /\ jobs[jobId].status \in {QUEUED, RUNNING}

\* The guard at the head of processJob.
processJobAccepts(jobId) ==
  getJob(jobs, jobId) # Null /\ jobs[jobId].status = QUEUED

\* processJob up to its first suspension (await researchPromise): the job is
\* marked running, iteration 1 is reported, the pipeline is started and the
\* three progress timers are scheduled.
processJob(jobId) ==
  IF ~processJobAccepts(jobId)
  THEN UNCHANGED <<jobs, pipelines, timers, researchCalls>>
  ELSE LET run == researchCalls[jobId] + 1
           s1 == updateJobStatus(jobs, jobId, RUNNING, <<>>)
           s2 == updateProgress(s1, jobId, 0, Undefined, Undefined, Undefined)
           s3 == updateProgress(s2, jobId, 0, Undefined, 0, totalIterations)
           s4 == updateProgress(s3, jobId, progressMilestones[1],
                                estimatedSeconds[1], 1, totalIterations)
       IN /\ jobs' = s4
          /\ researchCalls' = [researchCalls EXCEPT ![jobId] = run]
          /\ pipelines' = pipelines \cup {[job |-> jobId, run |-> run]}
          /\ timers' = timers \cup
                         {[job |-> jobId, run |-> run, idx |-> k] : k \in 1..3}

\* DeepResearchJobController.createJob with a valid query.
CreateJob ==
  /\ proc # "exited"
  /\ Len(jobs) < MaxJobs
  /\ jobs' = createJob(jobs)
  /\ researchCalls' = Append(researchCalls, 0)
  /\ immediates' = immediates \cup {Len(jobs) + 1}
  /\ UNCHANGED <<isProcessing, processingInterval, pipelines, timers, proc>>
  /\ UNCHANGED <<mergeVars, pureVars>>

\* The setImmediate callback of createJob: worker.processJob(job.jobId).
ImmediateTrigger(jobId) ==
  /\ proc # "exited"
  /\ jobId \in immediates
  /\ immediates' = immediates \ {jobId}
  /\ processJob(jobId)
  /\ UNCHANGED <<isProcessing, processingInterval, proc>>
  /\ UNCHANGED <<mergeVars, pureVars>>

\* One firing of the setInterval callback: processNextJob.
PollingTick ==
  /\ proc # "exited"
  /\ processingInterval
  /\ LET queuedJobs == getQueuedJobs(jobs)
     IN IF Len(queuedJobs) = 0
        THEN UNCHANGED <<jobs, pipelines, timers, researchCalls>>
        ELSE processJob(queuedJobs[1])
  /\ UNCHANGED <<isProcessing, processingInterval, immediates, proc>>
  /\ UNCHANGED <<mergeVars, pureVars>>

\* A setTimeout callback (2 s, 4 s, 6 s) of performDeepResearchWithProgress.
\* The timers of one run fire in the order of their delays.
ProgressTimer(t) ==
  /\ proc # "exited"
  /\ t \in timers
  /\ \A u \in timers : (u.job = t.job /\ u.run = t.run) => u.idx >= t.idx
  /\ timers' = timers \ {t}
  /\ jobs' = updateProgress(jobs, t.job, progressMilestones[t.idx + 1],
                            estimatedSeconds[t.idx + 1], t.idx + 1,
                            totalIterations)
  /\ UNCHANGED <<isProcessing, processingInterval, immediates, pipelines,
                 researchCalls, proc>>
  /\ UNCHANGED <<mergeVars, pureVars>>

\* researchPromise resolves: iteration 5 is reported and the result stored.
ResearchResolves(p, result) ==
  /\ proc # "exited"
  /\ p \in pipelines
  /\ pipelines' = pipelines \ {p}
  /\ LET s1 == updateProgress(jobs, p.job, progressMilestones[5],
                              estimatedSeconds[5], totalIterations,
                              totalIterations)
     IN jobs' = setResult(s1, p.job, JobResult(result))
  /\ UNCHANGED <<isProcessing, processingInterval, immediates, timers,
                 researchCalls, proc>>
  /\ UNCHANGED <<mergeVars, pureVars>>

\* Mutant: the failure also takes the polling loop down.
ResearchRejects_StopsWorker(p, message) ==
  /\ proc # "exited"
  /\ p \in pipelines
  /\ pipelines' = pipelines \ {p}
  /\ jobs' = setError(jobs, p.job,
                      [code |-> getErrorCode(message), message |-> message])
  /\ processingInterval' = FALSE
  /\ UNCHANGED <<isProcessing, immediates, timers, researchCalls, proc>>
  /\ UNCHANGED <<mergeVars, pureVars>>

\* researchPromise rejects: rethrown, then caught by processJob.
ResearchRejects(p, message) ==
  /\ proc # "exited"
  /\ p \in pipelines
  /\ pipelines' = pipelines \ {p}
  /\ jobs' = setError(jobs, p.job,
                      [code |-> getErrorCode(message), message |-> message])
  /\ UNCHANGED <<isProcessing, processingInterval, immediates, timers,
                 researchCalls, proc>>
  /\ UNCHANGED <<mergeVars, pureVars>>

\* stopProcessing: the interval is cleared and the flag reset.
stopProcessing ==
  /\ processingInterval' = FALSE
  /\ isProcessing' = FALSE

\* The signal handler of main.ts: app.get('DeepResearchWorkerService') yields
\* the worker, which is stopped, or throws, which is swallowed.
Shutdown ==
  /\ proc = "up"
  /\ \/ stopProcessing
     \/ UNCHANGED <<isProcessing, processingInterval>>
  /\ proc' = "closing"
  /\ UNCHANGED <<jobs, immediates, pipelines, timers, researchCalls>>
  /\ UNCHANGED <<mergeVars, pureVars>>

\* app.close() has resolved: process.exit(0).
ProcessExit ==
  /\ proc = "closing"
  /\ proc' = "exited"
  /\ UNCHANGED <<jobs, isProcessing, processingInterval, immediates, pipelines,
                 timers, researchCalls>>
  /\ UNCHANGED <<mergeVars, pureVars>>

\* The worker's constructor has run startProcessing; the store is empty.
JobInit ==
  /\ jobs = <<>>
  /\ isProcessing = TRUE
  /\ processingInterval = TRUE
  /\ immediates = {}
  /\ pipelines = {}
  /\ timers = {}
  /\ researchCalls = <<>>
  /\ proc = "up"

NoOutcome ==
  [kind |-> "none", status |-> 0, merged_answer |-> Null, model_answers |-> <<>>]

\* No merge request is being served.
MergeIdle ==
  /\ mcfg = <<>>
  /\ mpc = "idle"
  /\ calls = <<>>
  /\ completed = <<>>
  /\ modelResults = <<>>
  /\ successfulResults = <<>>
  /\ judgeStarted = FALSE
  /\ judges = <<>>
  /\ judgePromise = 0
  /\ debateRounds = <<>>
  /\ finalAnswersForJudge = <<>>
  /\ outcome = NoOutcome

JobNext ==
  \/ CreateJob
  \/ \E jobId \in 1..MaxJobs : ImmediateTrigger(jobId)
  \/ PollingTick
  \/ \E t \in timers : ProgressTimer(t)
  \/ \E p \in pipelines, result \in DeepResearchResults : ResearchResolves(p, result)
  \/ \E p \in pipelines, message \in PipelineErrors : ResearchRejects(p, message)

\* No function is applied on its own.
PureIdle ==
  /\ harness = "idle"
  /\ args = <<>>
  /\ ret = <<>>

\* The job subsystem on its own: no merge request is served.
JobSpecInit == JobInit /\ MergeIdle /\ PureIdle
JobSpec == JobSpecInit /\ [][JobNext]_vars

\* The job subsystem with the shutdown signal of main.ts.
JobShutdownNext == JobNext \/ Shutdown \/ ProcessExit
JobShutdownSpec == JobSpecInit /\ [][JobShutdownNext]_vars

(***************************************************************************)
(* Job store called directly (JobStoreService)                             *)
(***************************************************************************)
\* How far below 0 and above 100 the progress values passed to the store go.
MaxOvershoot == 3
\* Number of store calls made on a job.
MaxStoreCalls == 2

\* The numbers a caller may pass as progress.
ProgressInputs == ((0 - MaxOvershoot)..(100 + MaxOvershoot)) \cup {NaN}

\* The store API called directly on one stored job; args is the last call.
StoreInit ==
  /\ jobs = createJob(<<>>)
  /\ researchCalls = <<0>>
  /\ isProcessing = TRUE
  /\ processingInterval = TRUE
  /\ immediates = {}
  /\ pipelines = {}
  /\ timers = {}
  /\ proc = "up"
  /\ harness = "call"
  /\ args = [op |-> "createJob", jobId |-> 1, progress |-> 0]
  /\ ret = <<>>
  /\ MergeIdle

StoreUpdateProgress(jobId, progress) ==
  /\ harness = "call"
  /\ jobs[jobId].updatedAt < MaxStoreCalls
  /\ jobs' = updateProgress(jobs, jobId, progress, Undefined, Undefined, Undefined)
  /\ args' = [op |-> "updateProgress", jobId |-> jobId, progress |-> progress]
  /\ UNCHANGED <<isProcessing, processingInterval, immediates, pipelines,
                 timers, researchCalls, proc, harness, ret, mergeVars>>

StoreSetResult(jobId, result) ==
  /\ harness = "call"
  /\ jobs[jobId].updatedAt < MaxStoreCalls
  /\ jobs' = setResult(jobs, jobId, result)
  /\ args' = [op |-> "setResult", jobId |-> jobId, progress |-> 100]
  /\ UNCHANGED <<isProcessing, processingInterval, immediates, pipelines,
                 timers, researchCalls, proc, harness, ret, mergeVars>>

StoreSetError(jobId, message) ==
  /\ harness = "call"
  /\ jobs[jobId].updatedAt < MaxStoreCalls
  /\ jobs' = setError(jobs, jobId, [code |-> "RESEARCH_FAILED", message |-> message])
  /\ args' = [op |-> "setError", jobId |-> jobId, progress |-> 0]
  /\ UNCHANGED <<isProcessing, processingInterval, immediates, pipelines,
                 timers, researchCalls, proc, harness, ret, mergeVars>>

StoreNext ==
  \/ \E jobId \in DOMAIN jobs, progress \in ProgressInputs :
       StoreUpdateProgress(jobId, progress)
  \/ \E jobId \in DOMAIN jobs : StoreSetResult(jobId, <<"summary">>)
  \/ \E jobId \in DOMAIN jobs : StoreSetError(jobId, <<"failed">>)

StoreSpec == StoreInit /\ [][StoreNext]_vars

\* The pipeline of job jobId settles: every remote call returns or fails.
PipelineSettles(jobId) ==
  \E p \in pipelines :
    /\ p.job = jobId
    /\ \/ \E result \in DeepResearchResults : ResearchResolves(p, result)
       \/ \E message \in PipelineErrors : ResearchRejects(p, message)

\* Polling ticks keep firing and every pipeline eventually settles.
JobLiveSpec ==
  /\ JobSpec
  /\ WF_vars(PollingTick)
  /\ \A jobId \in 1..MaxJobs : WF_vars(PipelineSettles(jobId))

(***************************************************************************)
(* Claims about the job subsystem                                          *)
(***************************************************************************)
Terminal == {COMPLETED, FAILED}

\* C1: the only status changes of a job are queued->running,
\* running->completed and running->failed, under every interleaving of
\* creation, polling ticks, immediate triggers, timers and completion.
C1_StatusTransitions ==
  [][\A j \in DOMAIN jobs :
       jobs'[j].status # jobs[j].status =>
         <<jobs[j].status, jobs'[j].status>> \in
           {<<QUEUED, RUNNING>>, <<RUNNING, COMPLETED>>, <<RUNNING, FAILED>>}]_vars

\* One job completed and one failed, every trigger and timer has fired.
C1_Witness ==
  /\ \E i, j \in DOMAIN jobs :
       jobs[i].status = COMPLETED /\ jobs[j].status = FAILED
  /\ immediates = {} /\ timers = {}

\* C2: every completed job has progress = 100, a result and completedAt,
\* also after the progress timers have fired.
C2_CompletedJobIsFull ==
  \A j \in DOMAIN jobs :
    jobs[j].status = COMPLETED =>
      /\ jobs[j].progress = 100
      /\ jobs[j].result # Null
      /\ jobs[j].completedAt # Undefined

\* C3: for a job that does not fail, the observable progress never decreases,
\* is one of 0,10,30,50,70,100, the status only advances, and once completed
\* the progress is 100 and stays 100.
C3_ProgressAdvances ==
  [][\A j \in DOMAIN jobs :
       jobs'[j].status # FAILED =>
         /\ jobs'[j].progress >= jobs[j].progress
         /\ jobs'[j].progress \in {0, 10, 30, 50, 70, 100}
         /\ jobs[j].status = RUNNING => jobs'[j].status \in {RUNNING, COMPLETED}
         /\ jobs[j].status = COMPLETED =>
              jobs'[j].status = COMPLETED /\ jobs'[j].progress = 100]_vars

\* C4: at most one job is running at any instant.
C4_AtMostOneRunning ==
  Cardinality({j \in DOMAIN jobs : jobs[j].status = RUNNING}) <= 1

\* C5: performDeepResearch is started at most once per job, and a
\* processJob call (here: the immediate trigger) on a job that is not queued
\* changes nothing and starts nothing.
C5_PipelineStartedOnce ==
  [][/\ \A j \in DOMAIN jobs' : researchCalls'[j] <= 1
     /\ \A j \in DOMAIN jobs :
          (j \in immediates /\ j \notin immediates' /\ jobs[j].status # QUEUED)
            => UNCHANGED <<jobs, pipelines, timers, researchCalls>>]_vars

\* The polling tick has started a job whose immediate trigger is still to
\* fire, and another job's trigger has already fired on it.
C5_Witness ==
  \E i, j \in DOMAIN jobs :
    /\ i \in immediates /\ jobs[i].status = RUNNING /\ researchCalls[i] = 1
    /\ j \notin immediates /\ jobs[j].status # QUEUED /\ researchCalls[j] = 1

\* C6: with polling ticks firing and pipelines settling, every created job
\* eventually becomes completed or failed (also those queued or created
\* after another job has failed).
C6_EveryJobTerminates ==
  \A j \in 1..MaxJobs :
    (j \in DOMAIN jobs) ~> (j \in DOMAIN jobs /\ jobs[j].status \in Terminal)

\* A job has failed and a job created after it has completed.
C6_Witness ==
  \E i, j \in DOMAIN jobs :
    i < j /\ jobs[i].status = FAILED /\ jobs[j].status = COMPLETED

(***************************************************************************)
(* Remote Model Client (OpenRouterService)                                 *)
(***************************************************************************)
\* Texts are sequences of tokens; the empty string is the empty sequence.
EmptyString == <<>>
AnswerOf(model) == <<"answer", model>>

\* What the gateway does with one callModel request to a model: it answers,
\* answers with an empty content, the request times out, or no response
\* arrives at all.
RawOutcomes(model) ==
  {[kind |-> "response", content |-> AnswerOf(model)],
   [kind |-> "response", content |-> EmptyString],
   [kind |-> "timeout", content |-> EmptyString],
   [kind |-> "network", content |-> EmptyString]}

CallOk(response) == [ok |-> TRUE, response |-> response, error |-> EmptyString]
CallError(message) == [ok |-> FALSE, response |-> EmptyString, error |-> message]

\* Mutant: an empty content is returned as a response.
callModel_NoEmptyCheck(raw) ==
  IF raw.kind = "response" THEN CallOk(raw.content)
  ELSE IF raw.kind = "timeout" THEN CallError(TimeoutMessage)
  ELSE IF raw.kind = "http" THEN CallError(ApiErrorMessage(raw.content))
  ELSE CallError(NetworkErrorMessage)

callModel(raw) ==
  IF raw.kind = "response"
  THEN IF raw.content = EmptyString
       THEN CallError(EmptyResponseMessage)
       ELSE CallOk(raw.content)
  ELSE IF raw.kind = "timeout" THEN CallError(TimeoutMessage)
  ELSE IF raw.kind = "http" THEN CallError(ApiErrorMessage(raw.content))
  ELSE CallError(NetworkErrorMessage)

\* The retry loop from attempt (0-based) on; attempts[i] is what the gateway
\* does with the i-th callModel request. invocations counts the requests.
RECURSIVE retryLoop(_, _, _)
retryLoop(attempts, attempt, maxRetries) ==
  LET result == callModel(attempts[attempt + 1])
      counted == [ok |-> result.ok, response |-> result.response,
                  error |-> result.error, invocations |-> attempt + 1]
  IN IF result.ok THEN counted
     ELSE IF Includes(result.error, "timeout") \/ attempt = maxRetries
          THEN counted
          ELSE retryLoop(attempts, attempt + 1, maxRetries)

\* Mutant: a failed attempt is never retried.
callModelWithRetry_NoRetry(attempts, maxRetries) == retryLoop(attempts, 0, 0)

callModelWithRetry(attempts, maxRetries) == retryLoop(attempts, 0, maxRetries)

\* Largest maxRetries passed to callModelWithRetry.
MaxRetries == 2

\* What the gateway may do with one request: the outcomes of RawOutcomes and
\* HTTP error responses, one of them with the word timeout in its body.
RetryOutcomes ==
  RawOutcomes(1) \cup
    {[kind |-> "http", content |-> <<"429", "rate limit">>],
     [kind |-> "http", content |-> <<"504", "timeout">>]}

\* callModelWithRetry applied to any maxRetries and any gateway behaviour.
RetryInit ==
  /\ JobInit /\ MergeIdle
  /\ harness = "call"
  /\ \E maxRetries \in 0..MaxRetries :
       \E attempts \in [1..(MaxRetries + 1) -> RetryOutcomes] :
          args = [attempts |-> attempts, maxRetries |-> maxRetries]
  /\ ret = <<>>

RetryCall ==
  /\ harness = "call"
  /\ ret' = callModelWithRetry(args.attempts, args.maxRetries)
  /\ harness' = "done"
  /\ UNCHANGED <<args, jobVars, mergeVars>>

RetrySpec == RetryInit /\ [][RetryCall]_vars

(***************************************************************************)
(* Judge (JudgeService.judgeAndMerge): the messages sent to the judge      *)
(***************************************************************************)
\* The concatenation of a sequence of texts.
RECURSIVE Flatten(_)
Flatten(texts) ==
  IF texts = <<>> THEN <<>> ELSE Head(texts) \o Flatten(Tail(texts))

\* String.fromCharCode(65 + index) for the 0-based index.
Letters == <<"A", "B", "C", "D", "E", "F">>
\* `${n}` for a small count n.
NumberText(n) == <<"0", "1", "2", "3", "4", "5", "6">>[n + 1]

\* max_answer_length_for_judge, in tokens.
MaxAnswerLength == 2

\* truncateAnswer: the text cut at a word boundary, with an ellipsis.
truncateAnswer(answer, maxLength) ==
  IF Len(answer) <= maxLength THEN answer
  ELSE SubSeq(answer, 1, maxLength) \o <<"...">>

\* Mutant: the label is derived from the model that gave the answer.
answerLabel_ByModel(item, index) == <<"Answer", Letters[item.model]>>

\* `Answer ${String.fromCharCode(65 + index)}` (index 0-based).
answerLabel(item, index) == <<"Answer", Letters[index + 1]>>

\* successfulAnswers.map((item, index) => ({label, content: item.answer}))
Anonymize(successfulAnswers) ==
  [i \in DOMAIN successfulAnswers |->
     [label |-> answerLabel(successfulAnswers[i], i - 1),
      content |-> successfulAnswers[i].answer]]

getJudgeSystemPrompt(isResearchMode) ==
  IF isResearchMode THEN <<"synthesis", "judge", "RESEARCH", "MODE">>
  ELSE <<"synthesis", "judge", "polished">>

buildJudgeUserMessage(userPrompt, anonymizedAnswers) ==
  LET processedAnswers ==
        [i \in DOMAIN anonymizedAnswers |->
           [label |-> anonymizedAnswers[i].label,
            content |-> IF Len(anonymizedAnswers[i].content) > MaxAnswerLength
                        THEN truncateAnswer(anonymizedAnswers[i].content,
                                            MaxAnswerLength)
                        ELSE anonymizedAnswers[i].content]]
  IN <<"USER", "QUESTION">> \o userPrompt
       \o <<"received", NumberText(Len(processedAnswers)), "expert", "answers">>
       \o Flatten([i \in DOMAIN processedAnswers |->
                     <<"---">> \o processedAnswers[i].label \o <<":">>
                       \o processedAnswers[i].content])
       \o <<"---", "Now", "create", "your", "synthesized", "response">>

\* The system and user messages judgeAndMerge sends, or threw when there is
\* no answer to judge.
judgeMessages(userPrompt, successfulAnswers, rounds, isResearchMode) ==
  IF Len(successfulAnswers) = 0
  THEN [threw |-> TRUE, system |-> <<>>, user |-> <<>>]
  ELSE LET userMessage ==
             buildJudgeUserMessage(userPrompt, Anonymize(successfulAnswers))
           debateNote == <<"IMPORTANT", "observed", NumberText(Len(rounds)),
                           "rounds">>
           debateContext ==
             <<"DEBATE", "EVOLUTION", "CONTEXT", NumberText(Len(rounds))>>
               \o Flatten([r \in DOMAIN rounds |->
                             <<"Round", NumberText(rounds[r].round), "Judge",
                               "Feedback">> \o rounds[r].judgeFeedback])
               \o <<"final", "answers", "above">>
       IN IF Len(rounds) > 0
          THEN [threw |-> FALSE,
                system |-> getJudgeSystemPrompt(isResearchMode) \o debateNote,
                user |-> debateContext \o userMessage]
          ELSE [threw |-> FALSE,
                system |-> getJudgeSystemPrompt(isResearchMode),
                user |-> userMessage]

\* The answer contents handed to the judge: a short and a long one.
JudgeContents ==
  {<<"short", "answer">>, <<"a", "long", "answer", "with", "many", "words">>}

\* The answer lists of 0..2 answers given by any of the models.
JudgeInputs ==
  UNION {[1..n -> [model : 1..MaxModels, answer : JudgeContents]] : n \in 0..2}

\* judgeAndMerge applied to any answers, with or without a debate round.
JudgeInit ==
  /\ JobInit /\ MergeIdle
  /\ harness = "call"
  /\ \E successfulAnswers \in JudgeInputs, debated \in BOOLEAN,
         isResearchMode \in BOOLEAN :
       args = [userPrompt |-> <<"the", "question">>,
               successfulAnswers |-> successfulAnswers,
               debateRounds |->
                 IF debated
                 THEN <<[round |-> 1, judgeFeedback |-> <<"be", "concise">>,
                         answers |-> successfulAnswers]>>
                 ELSE <<>>,
               isResearchMode |-> isResearchMode]
  /\ ret = <<>>

JudgeMessagesBuilt ==
  /\ harness = "call"
  /\ ret' = judgeMessages(args.userPrompt, args.successfulAnswers,
                          args.debateRounds, args.isResearchMode)
  /\ harness' = "done"
  /\ UNCHANGED <<args, jobVars, mergeVars>>

JudgeSpec == JudgeInit /\ [][JudgeMessagesBuilt]_vars

(***************************************************************************)
(* Configuration (ConfigService.loadConfig)                                *)
(***************************************************************************)
DefaultMinModelsForJudge == 2
DefaultMaxDebateRounds == 2

\* `parsed.option || fallback` of ConfigService.loadConfig.
ConfigNumber(parsed, fallback) == IF parsed = 0 THEN fallback ELSE parsed

(***************************************************************************)
(* Debate Engine (DebateService), as far as merge reads its result         *)
(***************************************************************************)
GenericFeedback == <<"Continue", "refining">>

\* Mutant: a failed judge-feedback call is rethrown.
getJudgeFeedback_Rethrows(ok, round) ==
  IF ok THEN CallOk(<<"feedback", round>>) ELSE CallError(TimeoutMessage)

\* getJudgeFeedback: the feedback of the judge, or the generic feedback when
\* the call failed (ok = the call succeeded).
getJudgeFeedback(ok, round) ==
  IF ok THEN CallOk(<<"feedback", round>>) ELSE CallOk(GenericFeedback)

\* Mutant: a failed refinement leaves the model without an answer.
refineAnswer_DropsOnFailure(item, round, ok) ==
  IF ok THEN [model |-> item.model, answer |-> <<"refined", item.model, round>>]
  ELSE [model |-> item.model, answer |-> EmptyString]

\* One refinement promise: the model's new answer, or its previous answer
\* when the call failed (ok = the call succeeded).
refineAnswer(item, round, ok) ==
  IF ok THEN [model |-> item.model, answer |-> <<"refined", item.model, round>>]
  ELSE [model |-> item.model, answer |-> item.answer]

\* Mutant: the last round is left out.
debateContinues_StopsEarly(round, maxDebateRounds) == round < maxDebateRounds

\* The loop condition `round <= this.maxDebateRounds`.
debateContinues(round, maxDebateRounds) == round <= maxDebateRounds

\* outcomes[round] = [feedback |-> the judge-feedback call succeeded,
\*                    refined |-> the models whose refinement call succeeded]
\* threw: an exception left the loop.
RECURSIVE debateLoop(_, _, _, _, _)
debateLoop(currentAnswers, rounds, round, maxDebateRounds, outcomes) ==
  IF ~debateContinues(round, maxDebateRounds)
  THEN [threw |-> FALSE, debateRounds |-> rounds, finalAnswers |-> currentAnswers]
  ELSE LET judgeFeedback == getJudgeFeedback(outcomes[round].feedback, round)
           refinedAnswers ==
             [i \in DOMAIN currentAnswers |->
                refineAnswer(currentAnswers[i], round,
                             currentAnswers[i].model \in outcomes[round].refined)]
       IN IF ~judgeFeedback.ok
          THEN [threw |-> TRUE, debateRounds |-> rounds,
                finalAnswers |-> currentAnswers]
          ELSE debateLoop(refinedAnswers,
                          Append(rounds, [round |-> round,
                                          judgeFeedback |-> judgeFeedback.response,
                                          answers |-> refinedAnswers]),
                          round + 1, maxDebateRounds, outcomes)

conductIterativeDebate(initialAnswers, maxDebateRounds, outcomes) ==
  debateLoop(initialAnswers, <<>>, 1, maxDebateRounds, outcomes)

\* The debate outcomes explored under MergeSpec: in each round the feedback
\* call succeeds or fails, and the refinements all succeed or all fail.
MergeDebateOutcomes(models, maxDebateRounds) ==
  [1..maxDebateRounds ->
     {[feedback |-> f, refined |-> r] : f \in BOOLEAN, r \in {{}, models}}]

\* Largest max_debate_rounds read from config.json (0 = option absent or
\* set to 0: both are falsy operands of `||`).
MaxParsedRounds == 2

\* The answers of models 1..n before the debate.
InitialAnswers(n) == [m \in 1..n |-> [model |-> m, answer |-> AnswerOf(m)]]

\* Every behaviour of the feedback and refinement calls of R rounds.
DebateOutcomes(models, R) ==
  [1..R -> {[feedback |-> f, refined |-> r] : f \in BOOLEAN, r \in SUBSET models}]

\* conductIterativeDebate applied to 1..MaxModels answers under any
\* configured number of rounds and any behaviour of its remote calls.
DebateInit ==
  /\ JobInit /\ MergeIdle
  /\ harness = "call"
  /\ \E n \in 1..MaxModels, parsed \in 0..MaxParsedRounds :
       \E outcomes \in DebateOutcomes(1..n, ConfigNumber(parsed, DefaultMaxDebateRounds)) :
          args = [parsed |-> parsed,
                  initialAnswers |-> InitialAnswers(n),
                  maxDebateRounds |-> ConfigNumber(parsed, DefaultMaxDebateRounds),
                  outcomes |-> outcomes]
  /\ ret = <<>>

DebateCall ==
  /\ harness = "call"
  /\ ret' = conductIterativeDebate(args.initialAnswers, args.maxDebateRounds,
                                   args.outcomes)
  /\ harness' = "done"
  /\ UNCHANGED <<args, jobVars, mergeVars>>

DebateSpec == DebateInit /\ [][DebateCall]_vars

(***************************************************************************)
(* Merge Orchestrator (MergeService.merge)                                 *)
(***************************************************************************)
\* The configuration and request of one orchestration; models is the number
\* of customModels, the models being 1..models.
\* config.max_prompt_length, in characters.
MaxPromptLength == 3

\* Prompts are sequences of characters: a space, or a letter.
PromptChars == {" ", "a"}
ValidPrompt == <<"a">>

MergeConfigs ==
  {[models |-> n,
    prompt |-> ValidPrompt,
    maxPromptLength |-> MaxPromptLength,
    minModelsForJudge |-> ConfigNumber(pm, DefaultMinModelsForJudge),
    enableEarlyJudge |-> e,
    enableDebate |-> d,
    maxDebateRounds |-> ConfigNumber(pr, DefaultMaxDebateRounds),
    customJudgeModel |-> Null] :
     n \in 0..MaxModels, pm \in 0..MaxParsedMin, e \in BOOLEAN, d \in BOOLEAN,
     pr \in ParsedDebateRounds}

\* Mutant: a failed call is reported as a success without an answer.
callSingleModel_AlwaysSuccess(model, attempts) ==
  LET result == callModelWithRetry(attempts, 1)
  IN [model |-> model, answer |-> Some(result.response),
      success |-> TRUE, error |-> Null]

callSingleModel(model, attempts) ==
  LET result == callModelWithRetry(attempts, 1)
  IN IF result.ok
     THEN [model |-> model, answer |-> Some(result.response),
           success |-> TRUE, error |-> Null]
     ELSE [model |-> model, answer |-> Null,
           success |-> FALSE, error |-> Some(result.error)]

\* successfulResults.map((r) => ({ model: r.model, answer: r.answer! }))
AnswersOf(results) ==
  [i \in DOMAIN results |->
     [model |-> results[i].model, answer |-> results[i].answer[1]]]

\* config.judge_model, the default judge of MergeService and JudgeService.
DefaultJudgeModel == "judge-default"

\* judgeService.judgeAndMerge(prompt, input, rounds, customJudgeModel): a call
\* in flight, or already failed when there is nothing to judge. It is
\* addressed to customJudgeModel || this.judgeModel.
JudgeCall(input, rounds, customJudgeModel) ==
  [input |-> input, debateRounds |-> rounds,
   judgeModel |-> IF customJudgeModel = Null THEN DefaultJudgeModel
                  ELSE customJudgeModel[1],
   state |-> IF Len(input) = 0 THEN "failed" ELSE "pending"]

\* const judgeModelToUse = customJudgeModel || this.judgeModel
judgeModelToUse == Some(IF mcfg.customJudgeModel = Null THEN DefaultJudgeModel
                        ELSE mcfg.customJudgeModel[1])

\* The text the k-th judge call returns when it succeeds.
JudgeOutput(k) == <<"merged", k>>

\* Mutant: the judge is started at the first success.
maybeStartJudgeFires_AnySuccess(successes, started) ==
  ~started /\ Len(successes) >= 1 /\ mcfg.enableEarlyJudge

\* Mutant: the judgeStarted flag is not consulted.
maybeStartJudgeFires_NoFlag(successes, started) ==
  Len(successes) >= mcfg.minModelsForJudge /\ mcfg.enableEarlyJudge

\* The condition of maybeStartJudge.
maybeStartJudgeFires(successes, started) ==
  /\ ~started
  /\ Len(successes) >= mcfg.minModelsForJudge
  /\ mcfg.enableEarlyJudge

\* prompt.trim(): the prompt without its leading and trailing whitespace.
RECURSIVE trim(_)
trim(prompt) ==
  IF prompt = <<>> THEN prompt
  ELSE IF Head(prompt) = " " THEN trim(Tail(prompt))
  ELSE IF prompt[Len(prompt)] = " " THEN trim(SubSeq(prompt, 1, Len(prompt) - 1))
  ELSE prompt

\* Mutant: a prompt of exactly max_prompt_length characters is rejected.
mergeRejects_AtLimit(cfg) ==
  \/ cfg.models = 0
  \/ Len(cfg.prompt) = 0 \/ Len(trim(cfg.prompt)) = 0
  \/ Len(cfg.prompt) >= cfg.maxPromptLength

\* The validation at the head of merge (lines 128-175): TRUE when it throws
\* HttpException(..., BAD_REQUEST).
mergeRejects(cfg) ==
  \/ cfg.models = 0
  \/ Len(cfg.prompt) = 0 \/ Len(trim(cfg.prompt)) = 0
  \/ Len(cfg.prompt) > cfg.maxPromptLength

\* merge() is called: validation of the model list and of the prompt, then
\* the fan-out.
MergeStart ==
  /\ mpc = "start"
  /\ IF mergeRejects(mcfg)
     THEN /\ mpc' = "thrown"
          /\ outcome' = [NoOutcome EXCEPT !.kind = "BadInput", !.status = 400]
          /\ UNCHANGED calls
     ELSE /\ mpc' = "fanout"
          /\ calls' = [m \in 1..mcfg.models |-> Null]
          /\ UNCHANGED outcome
  /\ UNCHANGED <<mcfg, completed, modelResults, successfulResults, judgeStarted, judges,
                 judgePromise, debateRounds, finalAnswersForJudge>>
  /\ UNCHANGED <<jobVars, pureVars>>

\* callSingleModel(model) settles; with early judge enabled its wrapped
\* promise records the result and may start the judge.
ModelCompletes(model, attempts) ==
  /\ mpc = "fanout"
  /\ calls[model] = Null
  /\ LET result == callSingleModel(model, attempts)
         successes == IF result.success
                      THEN Append(successfulResults, result)
                      ELSE successfulResults
         startJudge == result.success
                       /\ maybeStartJudgeFires(successes, judgeStarted)
     IN /\ calls' = [calls EXCEPT ![model] = Some(result)]
        /\ IF mcfg.enableEarlyJudge
           THEN /\ modelResults' = Append(modelResults, result)
                /\ successfulResults' = successes
                /\ judgeStarted' = (judgeStarted \/ startJudge)
                /\ judges' = IF startJudge
                             THEN Append(judges, JudgeCall(AnswersOf(successes), <<>>,
                                                     judgeModelToUse))
                             ELSE judges
                /\ judgePromise' = IF startJudge THEN Len(judges) + 1
                                   ELSE judgePromise
           ELSE UNCHANGED <<modelResults, successfulResults, judgeStarted,
                            judges, judgePromise>>
  /\ completed' = Append(completed, model)
  /\ UNCHANGED <<mcfg, mpc, debateRounds, finalAnswersForJudge, outcome>>
  /\ UNCHANGED <<jobVars, pureVars>>

\* Mutant: the fan-out is left as soon as one call has settled.
FanoutSettled_Any == \E m \in DOMAIN calls : calls[m] # Null

\* Promise.all over the model calls has resolved.
FanoutSettled == \A m \in DOMAIN calls : calls[m] # Null

\* Mutant: the error carries no per-model results.
AllModelsFailed_NoResults(results) ==
  [kind |-> "AllModelsFailed", status |-> 500, merged_answer |-> Null,
   model_answers |-> <<>>]

AllModelsFailed(results) ==
  [kind |-> "AllModelsFailed", status |-> 500, merged_answer |-> Null,
   model_answers |-> results]

\* Mutant: the late judge is launched whether or not one was started early.
lateJudgeNeeded_Always(started) == TRUE

\* `if (!judgeStarted)` after the fan-out.
lateJudgeNeeded(started) == ~started

\* Mutant: a judge call already launched is kept also after a debate.
judgeForFinalAnswers_OnlyIfNone(js, jp, finalAnswers, rounds) ==
  IF jp = 0 THEN Append(js, JudgeCall(finalAnswers, rounds, Null)) ELSE js

\* Lines 403-425: the judge call for the final answers, if one is needed.
judgeForFinalAnswers(js, jp, finalAnswers, rounds) ==
  IF jp = 0 \/ Len(rounds) > 0
  THEN Append(js, JudgeCall(finalAnswers, rounds, Null))
  ELSE js

\* merge() resumes after the fan-out and runs to its next await: the debate,
\* or the judge.
FanoutJoins ==
  /\ mpc = "fanout"
  /\ FanoutSettled
  /\ LET settled == SelectSeq([m \in DOMAIN calls |-> calls[m]],
                              LAMBDA c : c # Null)
         allResults == [i \in DOMAIN settled |-> settled[i][1]]
         results == IF mcfg.enableEarlyJudge THEN modelResults ELSE allResults
         successes == IF mcfg.enableEarlyJudge THEN successfulResults
                      ELSE SelectSeq(allResults, LAMBDA r : r.success)
         late == ~mcfg.enableEarlyJudge \/ lateJudgeNeeded(judgeStarted)
     IN IF late /\ Len(successes) = 0
        THEN /\ mpc' = "thrown"
             /\ outcome' = AllModelsFailed(results)
             /\ modelResults' = results
             /\ successfulResults' = successes
             /\ UNCHANGED <<judges, judgePromise, finalAnswersForJudge>>
        ELSE LET js == IF late
                       THEN Append(judges, JudgeCall(AnswersOf(successes), <<>>,
                                                     judgeModelToUse))
                       ELSE judges
                 jp == IF late THEN Len(js) ELSE judgePromise
                 finalAnswers == AnswersOf(successes)
                 toDebate == mcfg.enableDebate /\ Len(successes) >= 2
                 js2 == IF toDebate THEN js
                        ELSE judgeForFinalAnswers(js, jp, finalAnswers, <<>>)
             IN /\ modelResults' = results
                /\ successfulResults' = successes
                /\ finalAnswersForJudge' = finalAnswers
                /\ judges' = js2
                /\ judgePromise' = IF Len(js2) > Len(js) THEN Len(js2) ELSE jp
                /\ mpc' = IF toDebate THEN "debate" ELSE "judge"
                /\ UNCHANGED outcome
  /\ UNCHANGED <<mcfg, completed, calls, judgeStarted, debateRounds>>
  /\ UNCHANGED <<jobVars, pureVars>>

\* conductIterativeDebate returns; merge runs on to `await judgePromise`.
DebateReturns(outcomes) ==
  /\ mpc = "debate"
  /\ LET debateResult == conductIterativeDebate(finalAnswersForJudge,
                                                mcfg.maxDebateRounds, outcomes)
         \* catch: "Continuing with initial answers"
         rounds == IF debateResult.threw THEN <<>> ELSE debateResult.debateRounds
         finalAnswers == IF debateResult.threw THEN finalAnswersForJudge
                         ELSE debateResult.finalAnswers
         js == judgeForFinalAnswers(judges, judgePromise, finalAnswers, rounds)
     IN /\ debateRounds' = rounds
        /\ finalAnswersForJudge' = finalAnswers
        /\ judges' = js
        /\ judgePromise' = IF Len(js) > Len(judges) THEN Len(js) ELSE judgePromise
  /\ mpc' = "judge"
  /\ UNCHANGED <<mcfg, completed, calls, modelResults, successfulResults, judgeStarted,
                 outcome>>
  /\ UNCHANGED <<jobVars, pureVars>>

\* A judge call in flight succeeds or fails. Its response arrives in a later
\* turn of the event loop, hence not between the last model completion and
\* the continuation of merge after Promise.all.
JudgeSettles(k, ok) ==
  /\ k \in DOMAIN judges
  /\ judges[k].state = "pending"
  /\ ~(mpc = "fanout" /\ FanoutSettled)
  /\ judges' = [judges EXCEPT ![k].state = IF ok THEN "ok" ELSE "failed"]
  /\ UNCHANGED <<mcfg, completed, mpc, calls, modelResults, successfulResults,
                 judgeStarted, judgePromise, debateRounds, finalAnswersForJudge,
                 outcome>>
  /\ UNCHANGED <<jobVars, pureVars>>

\* Mutant: the fallback is the first success, debated or not.
fallbackAnswer_FirstSuccess ==
  IF Len(successfulResults) > 0 THEN successfulResults[1].answer ELSE Null

\* finalAnswersForJudge[0]?.answer || successfulResults[0]?.answer || null
fallbackAnswer ==
  IF Len(finalAnswersForJudge) > 0
     /\ finalAnswersForJudge[1].answer # EmptyString
  THEN Some(finalAnswersForJudge[1].answer)
  ELSE IF Len(successfulResults) > 0
          /\ successfulResults[1].answer # Null
          /\ successfulResults[1].answer[1] # EmptyString
       THEN successfulResults[1].answer
       ELSE Null

\* `await judgePromise` settles: merge returns the judge's output, or the
\* fallback answer when the judge failed.
MergeReturns ==
  /\ mpc = "judge"
  /\ judges[judgePromise].state # "pending"
  /\ mpc' = "returned"
  /\ outcome' = [kind |-> "returned", status |-> 200,
                 merged_answer |-> IF judges[judgePromise].state = "ok"
                                   THEN Some(JudgeOutput(judgePromise))
                                   ELSE fallbackAnswer,
                 model_answers |-> modelResults]
  /\ UNCHANGED <<mcfg, completed, calls, modelResults, successfulResults, judgeStarted,
                 judges, judgePromise, debateRounds, finalAnswersForJudge>>
  /\ UNCHANGED <<jobVars, pureVars>>

\* The same requests with a judge model override (customJudgeModel).
MergeOverrideConfigs ==
  {[c EXCEPT !.customJudgeModel = Some("judge-override")] : c \in MergeConfigs}

\* A merge request of configuration c is about to be served.
MergeRequest(c) ==
  /\ mcfg = c
  /\ mpc = "start"
  /\ calls = <<>>
  /\ completed = <<>>
  /\ modelResults = <<>>
  /\ successfulResults = <<>>
  /\ judgeStarted = FALSE
  /\ judges = <<>>
  /\ judgePromise = 0
  /\ debateRounds = <<>>
  /\ finalAnswersForJudge = <<>>
  /\ outcome = NoOutcome

\* One merge request, with any configuration, is about to be served.
MergeInit ==
  /\ mcfg \in MergeConfigs
  /\ mpc = "start"
  /\ calls = <<>>
  /\ completed = <<>>
  /\ modelResults = <<>>
  /\ successfulResults = <<>>
  /\ judgeStarted = FALSE
  /\ judges = <<>>
  /\ judgePromise = 0
  /\ debateRounds = <<>>
  /\ finalAnswersForJudge = <<>>
  /\ outcome = NoOutcome

MergeNext ==
  \/ MergeStart
  \/ \E model \in 1..MaxModels :
       \E attempts \in [1..2 -> RawOutcomes(model)] :
          model \in DOMAIN calls /\ ModelCompletes(model, attempts)
  \/ FanoutJoins
  \/ \E outcomes \in MergeDebateOutcomes(1..MaxModels, mcfg.maxDebateRounds) :
       DebateReturns(outcomes)
  \/ \E k \in 1..3, ok \in BOOLEAN : JudgeSettles(k, ok)
  \/ MergeReturns

\* One merge request on its own: the job store stays empty.
MergeSpecInit == MergeInit /\ JobInit /\ PureIdle
MergeSpec == MergeSpecInit /\ [][MergeNext]_vars

\* One merge request that names a judge model, on its own.
MergeOverrideInit ==
  JobInit /\ PureIdle /\ \E c \in MergeOverrideConfigs : MergeRequest(c)
MergeOverrideSpec == MergeOverrideInit /\ [][MergeNext]_vars

\* The prompts of at most n characters.
Prompts(n) == UNION {[1..k -> PromptChars] : k \in 0..n}

\* Requests with any prompt of up to max_prompt_length + 1 characters, for
\* 0, 1 or 2 models, debate enabled and the default judge threshold.
ValidationConfigs ==
  {[c EXCEPT !.prompt = p] :
     c \in {b \in MergeConfigs :
              b.models <= 2 /\ b.enableDebate
              /\ b.minModelsForJudge = DefaultMinModelsForJudge},
     p \in Prompts(MaxPromptLength + 1)}

\* One merge request with any prompt, on its own.
ValidationInit ==
  JobInit /\ PureIdle /\ \E c \in ValidationConfigs : MergeRequest(c)
ValidationSpec == ValidationInit /\ [][MergeNext]_vars

\* The whole service: the job subsystem and one merge request side by side.
Init == JobInit /\ MergeInit /\ PureIdle
Next == JobShutdownNext \/ MergeNext
Spec == Init /\ [][Next]_vars

(***************************************************************************)
(* Research Pipeline (ResearchService, DeepResearchService)                *)
(***************************************************************************)
\* Largest number of query models of a research job.
MaxQueryModels == 2
\* Largest number of tokens of an answer that cites sources.
MaxAnswerTokens == 2

\* The tokens of an answer that the citation patterns match, with the
\* patterns (1: /\[Source\s+(\d+)\]/gi, 2: /\[(\d+)\]/g,
\* 3: /\(Source\s+(\d+)\)/gi, 4: /Source\s+(\d+)/gi) matching in the token and
\* the number captured. Any other token is matched by no pattern.
CitationForms ==
  {[token |-> "[Source 1]", patterns |-> {1, 4}, number |-> 1],
   [token |-> "[2]", patterns |-> {2}, number |-> 2],
   [token |-> "(source 2)", patterns |-> {3, 4}, number |-> 2],
   [token |-> "Source 3", patterns |-> {4}, number |-> 3]}

AnswerTokens == {f.token : f \in CitationForms} \cup {"text"}

\* The texts of at most n tokens.
Texts(n) == UNION {[1..k -> AnswerTokens] : k \in 0..n}

\* answer.matchAll(pattern): the numbers captured, in the order of the text.
RECURSIVE matchAll(_, _)
matchAll(answer, pattern) ==
  IF answer = <<>> THEN <<>>
  ELSE LET forms == {f \in CitationForms :
                       f.token = Head(answer) /\ pattern \in f.patterns}
       IN (IF forms = {} THEN <<>> ELSE <<(CHOOSE f \in forms : TRUE).number>>)
            \o matchAll(Tail(answer), pattern)

\* url is an element of citations (Array.includes).
ArrayIncludes(citations, url) == \E i \in DOMAIN citations : citations[i] = url

\* The body of the two loops of extractCitations over the captured numbers.
RECURSIVE pushCitations(_, _, _)
pushCitations(citations, numbers, results) ==
  IF numbers = <<>> THEN citations
  ELSE LET sourceIndex == Head(numbers) - 1
           url == results[sourceIndex + 1].url
       IN IF sourceIndex >= 0 /\ sourceIndex < Len(results)
             /\ url # "" /\ ~ArrayIncludes(citations, url)
          THEN pushCitations(Append(citations, url), Tail(numbers), results)
          ELSE pushCitations(citations, Tail(numbers), results)

extractCitations(answer, researchContext) ==
  pushCitations(<<>>,
                matchAll(answer, 1) \o matchAll(answer, 2)
                  \o matchAll(answer, 3) \o matchAll(answer, 4),
                researchContext.results)

\* Set.add of each element of urls, in order, on a Set kept in insertion order.
RECURSIVE SetAddAll(_, _)
SetAddAll(allCitations, urls) ==
  IF urls = <<>> THEN allCitations
  ELSE SetAddAll(IF ArrayIncludes(allCitations, Head(urls)) THEN allCitations
                 ELSE Append(allCitations, Head(urls)),
                 Tail(urls))

NonEmptyUrls(urls) == SelectSeq(urls, LAMBDA url : url # "")

\* Mutant: the urls of the research results are not added.
extractAndAggregateCitations_NoResultUrls(finalAnswer, researchContext, modelAnswers) ==
  LET finalCitations == extractCitations(finalAnswer, researchContext)
      modelCitations ==
        NonEmptyUrls(Flatten([i \in DOMAIN modelAnswers |-> modelAnswers[i].citations]))
  IN SetAddAll(SetAddAll(<<>>, finalCitations), modelCitations)

\* Mutant: the urls of the research results are added first.
extractAndAggregateCitations_ResultsFirst(finalAnswer, researchContext, modelAnswers) ==
  LET resultUrls ==
        NonEmptyUrls([i \in DOMAIN researchContext.results |->
                        researchContext.results[i].url])
      finalCitations == extractCitations(finalAnswer, researchContext)
      modelCitations ==
        NonEmptyUrls(Flatten([i \in DOMAIN modelAnswers |-> modelAnswers[i].citations]))
  IN SetAddAll(SetAddAll(SetAddAll(<<>>, resultUrls), finalCitations),
               modelCitations)

extractAndAggregateCitations(finalAnswer, researchContext, modelAnswers) ==
  LET finalCitations == extractCitations(finalAnswer, researchContext)
      modelCitations ==
        NonEmptyUrls(Flatten([i \in DOMAIN modelAnswers |-> modelAnswers[i].citations]))
      resultUrls ==
        NonEmptyUrls([i \in DOMAIN researchContext.results |->
                        researchContext.results[i].url])
  IN SetAddAll(SetAddAll(SetAddAll(<<>>, finalCitations), modelCitations),
               resultUrls)

\* A research result, as far as the pipeline reads it.
ResearchResult(url) == [url |-> url]

\* The raw results a search may return; "" is a result without url.
RawResultLists ==
  {<<>>, <<"">>, <<"u1">>, <<"u1", "u2">>, <<"u2", "u1">>, <<"u1", "u1">>,
   <<"", "u2">>}

\* searchWithTavily's mapping: results without url are skipped.
searchWithTavily(rawResults) ==
  LET mapped == [i \in DOMAIN rawResults |-> ResearchResult(rawResults[i])]
  IN SelectSeq(mapped, LAMBDA r : r.url # "")

\* searchWithOpenRouter is not implemented: it returns no result.
searchWithOpenRouter == <<>>

\* What the search service does with a request.
SearchOutcomes ==
  {[kind |-> "error", rawResults |-> <<>>]} \cup
  {[kind |-> "results", rawResults |-> r] : r \in RawResultLists}

\* Mutant: a failed search is rethrown.
performResearch_Rethrows(tavilyApiKey, search) ==
  IF tavilyApiKey /\ search.kind = "error"
  THEN [threw |-> TRUE, results |-> <<>>, citations |-> <<>>]
  ELSE LET results == IF tavilyApiKey THEN searchWithTavily(search.rawResults)
                      ELSE searchWithOpenRouter
       IN [threw |-> FALSE, results |-> results,
           citations |-> NonEmptyUrls([i \in DOMAIN results |-> results[i].url])]

\* performResearch: the ResearchContext (query and summary left out); threw
\* tells whether it rejected.
performResearch(tavilyApiKey, search) ==
  IF tavilyApiKey /\ search.kind = "error"
  THEN [threw |-> FALSE, results |-> <<>>, citations |-> <<>>]
  ELSE LET results == IF tavilyApiKey THEN searchWithTavily(search.rawResults)
                      ELSE searchWithOpenRouter
       IN [threw |-> FALSE, results |-> results,
           citations |-> NonEmptyUrls([i \in DOMAIN results |-> results[i].url])]

\* One promise of getResearchedAnswers: the model's answer with its
\* citations, or an empty answer when the call failed.
researchedAnswer(model, raw, researchContext) ==
  LET result == callModelWithRetry(<<raw>>, 0)
  IN IF result.ok
     THEN [model |-> model, answer |-> result.response,
           citations |-> extractCitations(result.response, researchContext)]
     ELSE [model |-> model, answer |-> EmptyString, citations |-> <<>>]

getResearchedAnswers(researchContext, raws) ==
  [m \in DOMAIN raws |-> researchedAnswer(m, raws[m], researchContext)]

\* initialAnswers.filter((a) => a.answer && a.answer.length > 0)
SuccessfulAnswers(initialAnswers) ==
  SelectSeq(initialAnswers, LAMBDA a : a.answer # EmptyString)

\* What the gateway does with the request to one query model: it answers with
\* a text of at most one token (possibly empty), or the request times out.
ResearchRawOutcomes ==
  {[kind |-> "response", content |-> t] : t \in Texts(1)} \cup
  {[kind |-> "timeout", content |-> EmptyString]}

\* extractAndAggregateCitations applied as performDeepResearch applies it: to
\* any final answer, any research context and the answers of 0..MaxQueryModels
\* models with the citations extracted from them.
CitationInit ==
  /\ JobInit /\ MergeIdle
  /\ harness = "call"
  /\ \E finalAnswer \in Texts(MaxAnswerTokens), rawResults \in RawResultLists,
        n \in 0..MaxQueryModels :
       \E raws \in [1..n -> ResearchRawOutcomes] :
         LET researchContext == performResearch(TRUE, [kind |-> "results",
                                                       rawResults |-> rawResults])
         IN args = [finalAnswer |-> finalAnswer,
                    researchContext |-> researchContext,
                    modelAnswers |-> getResearchedAnswers(researchContext, raws)]
  /\ ret = <<>>

CitationCall ==
  /\ harness = "call"
  /\ ret' = extractAndAggregateCitations(args.finalAnswer, args.researchContext,
                                         args.modelAnswers)
  /\ harness' = "done"
  /\ UNCHANGED <<args, jobVars, mergeVars>>

CitationSpec == CitationInit /\ [][CitationCall]_vars

\* performDeepResearch as run by the worker for one job. harness is the
\* position of the pipeline ("idle" until performResearch has returned, then
\* "models", "debate", "judge", and "resolved" or "rejected"), args the job's
\* options and the environment, ret the locals of performDeepResearch.
PipelineStart ==
  [researchContext |-> [threw |-> FALSE, results |-> <<>>, citations |-> <<>>],
   searchFailed |-> FALSE,
   initialAnswers |-> <<>>,
   debateCalls |-> 0,
   finalAnswers |-> <<>>,
   debateRounds |-> <<>>,
   judgeCalls |-> 0,
   finalAnswer |-> EmptyString,
   citations |-> <<>>,
   error |-> EmptyString]

\* What the gateway does with a request of the pipeline, to a query model or
\* to the judge.
PipelineRawOutcomes ==
  {[kind |-> "response", content |-> <<"text">>],
   [kind |-> "response", content |-> <<"[Source 1]">>],
   [kind |-> "response", content |-> EmptyString],
   [kind |-> "timeout", content |-> EmptyString]}

\* The debate outcomes explored for the pipeline: the feedback calls all
\* succeed or all fail, and so do the refinements.
ResearchDebateOutcomes(models) ==
  {[round \in 1..DefaultMaxDebateRounds |-> [feedback |-> f, refined |-> r]] :
     f \in BOOLEAN, r \in {{}, models}}

\* No search request is made without an API key.
NoSearch == [kind |-> "none", rawResults |-> <<>>]

ResearchInit ==
  /\ JobInit /\ MergeIdle
  /\ harness = "idle"
  /\ \E n \in 0..MaxQueryModels, tavilyApiKey \in BOOLEAN :
       args = [queryModels |-> n, tavilyApiKey |-> tavilyApiKey]
  /\ ret = PipelineStart

\* The one job of the specification is created.
ResearchCreateJob == Len(jobs) = 0 /\ CreateJob

\* Step 1: performResearch returns (or rejects).
ResearchReturns(search) ==
  /\ harness = "idle"
  /\ pipelines # {}
  /\ LET researchContext == performResearch(args.tavilyApiKey, search)
     IN /\ harness' = IF researchContext.threw THEN "rejected" ELSE "models"
        /\ ret' = [ret EXCEPT
                     !.researchContext = researchContext,
                     !.searchFailed = (search.kind # "results"),
                     !.error = IF researchContext.threw
                               THEN NetworkErrorMessage ELSE @]
  /\ UNCHANGED <<args, jobVars, mergeVars>>

\* Mutant: the debate is run on whatever answers there are.
ModelsAnswer_DebatesAnyway(raws) ==
  /\ harness = "models"
  /\ harness' = "debate"
  /\ ret' = [ret EXCEPT !.initialAnswers =
                          getResearchedAnswers(ret.researchContext, raws)]
  /\ UNCHANGED <<args, jobVars, mergeVars>>

\* Step 3: getResearchedAnswers returns; without a non-empty answer the
\* pipeline throws.
ModelsAnswer(raws) ==
  /\ harness = "models"
  /\ LET initialAnswers == getResearchedAnswers(ret.researchContext, raws)
     IN IF Len(SuccessfulAnswers(initialAnswers)) = 0
        THEN /\ harness' = "rejected"
             /\ ret' = [ret EXCEPT !.initialAnswers = initialAnswers,
                                   !.error = NoAnswersMessage]
        ELSE /\ harness' = "debate"
             /\ ret' = [ret EXCEPT !.initialAnswers = initialAnswers]
  /\ UNCHANGED <<args, jobVars, mergeVars>>

\* Step 4: conductIterativeDebate on the successful answers returns.
ResearchDebateReturns(outcomes) ==
  /\ harness = "debate"
  /\ LET successfulAnswers == SuccessfulAnswers(ret.initialAnswers)
         debateResult ==
           conductIterativeDebate(
             [i \in DOMAIN successfulAnswers |->
                [model |-> successfulAnswers[i].model,
                 answer |-> successfulAnswers[i].answer]],
             DefaultMaxDebateRounds, outcomes)
     IN IF debateResult.threw
        THEN /\ harness' = "rejected"
             /\ ret' = [ret EXCEPT !.debateCalls = @ + 1,
                                   !.error = TimeoutMessage]
        ELSE /\ harness' = "judge"
             /\ ret' = [ret EXCEPT !.debateCalls = @ + 1,
                                   !.finalAnswers = debateResult.finalAnswers,
                                   !.debateRounds = debateResult.debateRounds]
  /\ UNCHANGED <<args, jobVars, mergeVars>>

\* Step 5 and 6: judgeAndMerge returns and the citations are aggregated, or
\* the judge call fails and judgeAndMerge rethrows its error.
ResearchJudgeReturns(raw) ==
  /\ harness = "judge"
  /\ LET result == callModelWithRetry(<<raw>>, 0)
     IN IF result.ok
        THEN /\ harness' = "resolved"
             /\ ret' = [ret EXCEPT
                          !.judgeCalls = @ + 1,
                          !.finalAnswer = result.response,
                          !.citations =
                             extractAndAggregateCitations(result.response,
                                                          ret.researchContext,
                                                          ret.initialAnswers)]
        ELSE /\ harness' = "rejected"
             /\ ret' = [ret EXCEPT !.judgeCalls = @ + 1, !.error = result.error]
  /\ UNCHANGED <<args, jobVars, mergeVars>>

\* researchPromise resolves with the pipeline's result.
PipelineResolves ==
  /\ harness = "resolved"
  /\ \E p \in pipelines :
       ResearchResolves(p, [results |-> ret.researchContext.results,
                            citations |-> ret.citations])

\* researchPromise rejects with the pipeline's error.
PipelineRejects ==
  /\ harness = "rejected"
  /\ \E p \in pipelines : ResearchRejects(p, ret.error)

\* The steps of the pipeline and of the worker awaiting it.
PipelineStep ==
  \/ \E search \in IF args.tavilyApiKey THEN SearchOutcomes ELSE {NoSearch} :
       ResearchReturns(search)
  \/ \E raws \in [1..args.queryModels -> PipelineRawOutcomes] : ModelsAnswer(raws)
  \/ \E outcomes \in ResearchDebateOutcomes(1..args.queryModels) :
       ResearchDebateReturns(outcomes)
  \/ \E raw \in PipelineRawOutcomes : ResearchJudgeReturns(raw)
  \/ PipelineResolves
  \/ PipelineRejects

ResearchNext ==
  \/ ResearchCreateJob
  \/ ImmediateTrigger(1)
  \/ PollingTick
  \/ \E t \in timers : ProgressTimer(t)
  \/ PipelineStep

ResearchSpec == ResearchInit /\ [][ResearchNext]_vars

\* The job is started and every step of the pipeline eventually returns.
ResearchLiveSpec ==
  /\ ResearchSpec
  /\ WF_vars(PollingTick)
  /\ WF_vars(PipelineStep)

\* Largest number of tokens of a pipeline error message.
MaxMessageTokens == 3

\* The tokens of a pipeline error message.
MessageTokens == {"timeout", "Timeout", "rate limit", "invalid", "error"}

\* processJob's catch applied to any error the pipeline may reject with:
\* args.message is the message of the error thrown to processJob.
ErrorCodeInit ==
  /\ JobInit /\ MergeIdle
  /\ harness = "call"
  /\ \E k \in 0..MaxMessageTokens :
       \E message \in [1..k -> MessageTokens] : args = [message |-> message]
  /\ ret = <<>>

\* researchPromise rejects with the error.
PipelineFails == \E p \in pipelines : ResearchRejects(p, args.message)

ErrorCodeNext ==
  \/ ResearchCreateJob
  \/ ImmediateTrigger(1)
  \/ PollingTick
  \/ \E t \in timers : ProgressTimer(t)
  \/ PipelineFails

ErrorCodeSpec == ErrorCodeInit /\ [][ErrorCodeNext]_vars

(***************************************************************************)
(* Claims about the merge orchestrator                                     *)
(***************************************************************************)
\* A judge call launched while the fan-out is still awaited: the early judge.
EarlyJudgeLaunched == mpc = "fanout" /\ mpc' = "fanout" /\ Len(judges') > Len(judges)

\* C7: with early judge enabled, the early judge is launched at most once, at
\* the very completion that makes the number of successes reach
\* min_models_for_judge; its input is the successes recorded up to and
\* including that completion, in completion order, and no later completion
\* alters the input of a launched call.
C7_EarlyJudgeOnceWithSnapshot ==
  [][/\ EarlyJudgeLaunched =>
          /\ mcfg.enableEarlyJudge
          /\ judges = <<>> /\ Len(judges') = 1 /\ judgePromise' = 1
          /\ Len(successfulResults) = mcfg.minModelsForJudge - 1
          /\ Len(successfulResults') = mcfg.minModelsForJudge
          /\ judges'[1].input = AnswersOf(successfulResults')
          /\ judges'[1].debateRounds = <<>>
     /\ (/\ mpc = "fanout" /\ mcfg.enableEarlyJudge
         /\ Len(successfulResults) = mcfg.minModelsForJudge - 1
         /\ Len(successfulResults') = mcfg.minModelsForJudge)
          => EarlyJudgeLaunched
     /\ \A k \in DOMAIN judges :
          /\ judges'[k].input = judges[k].input
          /\ judges'[k].debateRounds = judges[k].debateRounds]_vars

\* The early judge was launched and a model succeeded after the launch.
C7_Witness ==
  /\ mcfg.enableEarlyJudge /\ judgeStarted
  /\ Len(judges) >= 1
  /\ Len(successfulResults) > Len(judges[1].input)
  /\ Len(judges[1].input) = mcfg.minModelsForJudge

\* C8: with debate disabled, merge makes exactly one judge call when at least
\* one model succeeded (never more than one), and when that call succeeds its
\* output is the merged answer returned - the early judge's output also when
\* further models succeeded after its launch.
C8_OneJudgeCallWithoutDebate ==
  (mpc # "idle" /\ ~mcfg.enableDebate) =>
    /\ Len(judges) <= 1
    /\ mpc = "returned" =>
         /\ Len(judges) = 1 /\ judgePromise = 1
         /\ Len(successfulResults) >= 1
         /\ judges[1].state = "ok" =>
              outcome.merged_answer = Some(JudgeOutput(1))

\* Debate off, the early judge fired before the last success, and merge has
\* returned its output.
C8_Witness ==
  /\ mpc = "returned" /\ ~mcfg.enableDebate /\ judgeStarted
  /\ Len(successfulResults) > Len(judges[1].input)
  /\ judges[1].state = "ok"
  /\ outcome.merged_answer = Some(JudgeOutput(1))

\* The models (by index) of a result list.
ModelsOf(results) == [i \in DOMAIN results |-> results[i].model]
IsPermutationOfModels(seq, n) ==
  Len(seq) = n /\ \A m \in 1..n : Cardinality({i \in DOMAIN seq : seq[i] = m}) = 1

\* C9: merge neither returns nor throws AllModelsFailed before all N model
\* calls have completed, and the result list it returns or carries in the
\* error holds exactly one entry per requested model.
C9_AllModelsReported ==
  outcome.kind \in {"returned", "AllModelsFailed"} =>
    /\ \A m \in DOMAIN calls : calls[m] # Null
    /\ IsPermutationOfModels(ModelsOf(outcome.model_answers), mcfg.models)
    /\ \A i \in DOMAIN outcome.model_answers :
         outcome.model_answers[i] = calls[outcome.model_answers[i].model][1]

\* merge has returned a list mixing successes and failures, in an order
\* other than the request's.
C9_Witness ==
  /\ outcome.kind = "returned"
  /\ Len(outcome.model_answers) = MaxModels
  /\ \E i, j \in DOMAIN outcome.model_answers :
       /\ i < j
       /\ outcome.model_answers[i].model > outcome.model_answers[j].model
       /\ outcome.model_answers[i].success /\ ~outcome.model_answers[j].success

\* Every result recorded so far: the settled calls and the result lists.
RecordedResults ==
  {calls[m][1] : m \in {n \in DOMAIN calls : calls[n] # Null}}
    \cup {modelResults[i] : i \in DOMAIN modelResults}
    \cup {outcome.model_answers[i] : i \in DOMAIN outcome.model_answers}

\* C10: a failed model call is captured as success=false, answer=null and a
\* non-null error; it does not keep the sibling calls' results from being
\* recorded (with early judge on, every settled call is in modelResults at
\* once); and every recorded result has success <=> a non-empty answer.
C10_FailuresCaptured ==
  /\ \A r \in RecordedResults :
       /\ r.success <=> (r.answer # Null /\ r.answer[1] # EmptyString)
       /\ ~r.success => (r.answer = Null /\ r.error # Null)
       /\ r.success => r.error = Null
  /\ (mpc = "fanout" /\ mcfg.enableEarlyJudge) =>
       \A m \in DOMAIN calls :
         calls[m] # Null => \E i \in DOMAIN modelResults : modelResults[i] = calls[m][1]

\* A call failed first (after an empty response and a timeout), and a sibling's
\* success was recorded after it.
C10_Witness ==
  /\ Len(modelResults) >= 2
  /\ ~modelResults[1].success /\ modelResults[1].error = Some(TimeoutMessage)
  /\ modelResults[2].success
  /\ \E r \in RecordedResults : r.error = Some(EmptyResponseMessage)

\* Every model call has settled and none succeeded.
EveryCallFailed ==
  /\ mpc \notin {"idle", "start"} /\ Len(calls) >= 1
  /\ \A m \in DOMAIN calls : calls[m] # Null /\ ~calls[m][1].success

\* C11: when every one of the N model calls fails, merge fails with
\* AllModelsFailed (HTTP 500) carrying all N results, each success=false; no
\* judge call and no debate is started, with early judge enabled or disabled.
C11_AllModelsFailed ==
  /\ EveryCallFailed =>
       /\ judges = <<>> /\ judgePromise = 0 /\ debateRounds = <<>>
       /\ mpc \in {"fanout", "thrown"}
       /\ mpc = "thrown" =>
            /\ outcome.kind = "AllModelsFailed" /\ outcome.status = 500
            /\ outcome.merged_answer = Null
            /\ Len(outcome.model_answers) = mcfg.models
            /\ \A m \in DOMAIN calls :
                 \E i \in DOMAIN outcome.model_answers :
                   outcome.model_answers[i] = calls[m][1]
            /\ \A i \in DOMAIN outcome.model_answers :
                 ~outcome.model_answers[i].success
  /\ outcome.kind = "AllModelsFailed" => EveryCallFailed

\* All of three calls failed, with different errors, early judge enabled with
\* a threshold of one, and merge has thrown.
C11_Witness ==
  /\ outcome.kind = "AllModelsFailed" /\ mcfg.enableEarlyJudge
  /\ mcfg.minModelsForJudge = 1 /\ mcfg.enableDebate
  /\ Len(outcome.model_answers) = 3
  /\ \E i, j \in DOMAIN outcome.model_answers :
       /\ outcome.model_answers[i].error = Some(TimeoutMessage)
       /\ outcome.model_answers[j].error = Some(NetworkErrorMessage)

\* C12: when the debate recorded at least one round, merge launches a new
\* judge call on the debated final answers and the debate rounds, awaits that
\* call, and never returns the output of a call launched before the debate
\* finished.
C12_DebateSupersedesEarlyJudge ==
  (mpc \in {"judge", "returned"} /\ Len(debateRounds) >= 1) =>
    /\ judgePromise = Len(judges) /\ judgePromise >= 2
    /\ judges[judgePromise].input = finalAnswersForJudge
    /\ judges[judgePromise].debateRounds = debateRounds
    /\ finalAnswersForJudge = debateRounds[Len(debateRounds)].answers
    /\ mpc = "returned" =>
         \A k \in 1..(judgePromise - 1) :
           outcome.merged_answer # Some(JudgeOutput(k))

\* The early judge succeeded, the debate then refined the answers, the new
\* judge call succeeded and merge returned the new call's output.
C12_Witness ==
  /\ mpc = "returned" /\ judgeStarted /\ Len(debateRounds) >= 1
  /\ Len(judges) = 2 /\ judges[1].state = "ok" /\ judges[2].state = "ok"
  /\ judges[2].input # judges[1].input
  /\ outcome.merged_answer = Some(JudgeOutput(2))

\* merge has returned after the judge call it awaited failed.
ReturnedAfterJudgeFailure ==
  mpc = "returned" /\ judges[judgePromise].state = "failed"

\* The successful calls' models, in the order the calls settled / were requested.
SuccessesInCompletionOrder == SelectSeq(completed, LAMBDA m : calls[m][1].success)
SuccessesInRequestOrder ==
  SelectSeq([m \in DOMAIN calls |-> m], LAMBDA m : calls[m][1].success)

\* The answer merge falls back to when the first success is model m.
FallbackFor(m) ==
  IF Len(debateRounds) >= 1
  THEN /\ debateRounds[Len(debateRounds)].answers[1].model = m
       /\ outcome.merged_answer =
            Some(debateRounds[Len(debateRounds)].answers[1].answer)
  ELSE outcome.merged_answer = calls[m][1].answer

C14_JudgeCallsUseOverride ==
  mcfg.customJudgeModel # Null =>
    \A k \in DOMAIN judges : judges[k].judgeModel = mcfg.customJudgeModel[1]

\* The request is one the validation is to refuse.
IsBadInput ==
  \/ mcfg.models = 0
  \/ \A i \in DOMAIN mcfg.prompt : mcfg.prompt[i] = " "
  \/ Len(mcfg.prompt) > mcfg.maxPromptLength

\* C29: merge rejects with BadInput (400), before any model call is
\* initiated, when the prompt is empty or whitespace-only, longer than
\* max_prompt_length, or the model list is empty; any other request, among
\* them one with a prompt of exactly max_prompt_length characters, is
\* accepted and its model calls are initiated.
C29_BadInputRejectedBeforeCalls ==
  mpc # "start" =>
    IF IsBadInput
    THEN /\ mpc = "thrown"
         /\ outcome.kind = "BadInput" /\ outcome.status = 400
         /\ calls = <<>> /\ completed = <<>> /\ judges = <<>>
    ELSE /\ outcome.kind # "BadInput"
         /\ Len(calls) = mcfg.models

\* A prompt of exactly max_prompt_length characters, with leading and
\* trailing spaces, has been served to the end.
C29_Witness ==
  /\ Len(mcfg.prompt) = mcfg.maxPromptLength
  /\ mcfg.prompt[1] = " " /\ mcfg.prompt[Len(mcfg.prompt)] = " "
  /\ mpc = "returned" /\ outcome.status = 200

\* The answers model m has produced by the end of the step: the answer of
\* its completed, successful call and its refinements recorded by the debate.
AnswersProducedBy(m) ==
  (IF m \in DOMAIN calls' /\ calls'[m] # Null /\ calls'[m][1].success
   THEN {calls'[m][1].answer[1]} ELSE {})
  \cup UNION {{debateRounds'[r].answers[i].answer :
                 i \in {x \in DOMAIN debateRounds'[r].answers :
                         debateRounds'[r].answers[x].model = m}} :
              r \in DOMAIN debateRounds'}

\* C35: every answer passed as input to any judge call of merge comes from a
\* model call (or debate refinement) that had already completed successfully
\* when the judge call was launched, and the input of a launched judge call
\* is not altered by model completions that happen later.
C35_JudgeInputsFinalized ==
  [][/\ \A k \in (Len(judges) + 1)..Len(judges') :
          \A i \in DOMAIN judges'[k].input :
             LET item == judges'[k].input[i]
             IN /\ item.model \in DOMAIN calls'
                /\ calls'[item.model] # Null
                /\ calls'[item.model][1].success
                /\ item.answer # EmptyString
                /\ item.answer \in AnswersProducedBy(item.model)
                /\ (judges'[k].debateRounds = <<>> =>
                      item.answer = calls'[item.model][1].answer[1])
     /\ \A k \in DOMAIN judges :
          /\ k \in DOMAIN judges'
          /\ judges'[k].input = judges[k].input
          /\ judges'[k].debateRounds = judges[k].debateRounds]_vars

\* An early judge call over two answers is in flight, a third model has
\* answered since, and the post-debate call carries a refined answer.
C35_Witness ==
  /\ Len(judges) = 2 /\ Len(judges[1].input) = 2
  /\ Len(successfulResults) = 3 /\ mcfg.enableEarlyJudge
  /\ \E i \in DOMAIN judges[2].input :
       judges[2].input[i].answer = <<"refined", judges[2].input[i].model, 1>>

\* Judge call k fails in this step.
JudgeFails(k) ==
  /\ k \in DOMAIN judges /\ judges[k].state = "pending"
  /\ judges'[k].state = "failed"

\* merge has a handler attached to judge call k: merge is suspended at
\* `await judgePromise` inside its try block and judgePromise is call k.
AwaitedByMerge(k) == mpc = "judge" /\ judgePromise = k

\* C39: every judge call that merge launches has its failure handled by
\* merge: no judge call fails at a moment when merge has no handler attached
\* to it (the early judge while model calls or the debate are in flight, or
\* after it has been replaced by the post-debate call).
C39_JudgeFailuresHandled ==
  [][\A k \in DOMAIN judges : JudgeFails(k) => AwaitedByMerge(k)]_vars

\* What merge does guarantee: with early judge and debate both disabled the
\* only judge call is awaited as soon as it is launched.
JudgeFailuresHandledWithoutEarlyJudgeAndDebate ==
  [][(~mcfg.enableEarlyJudge /\ ~mcfg.enableDebate) =>
       \A k \in DOMAIN judges : JudgeFails(k) => AwaitedByMerge(k)]_vars

\* The early judge has failed while a model call is still in flight.
EarlyJudgeFailedDuringFanout ==
  /\ mpc = "fanout" /\ ~FanoutSettled
  /\ judgePromise = 1 /\ judges[1].state = "failed"

\* The early judge has failed after the post-debate call replaced it.
ReplacedJudgeFailed ==
  /\ Len(judges) = 2 /\ judgePromise = 2 /\ mcfg.enableEarlyJudge
  /\ judges[1].state = "failed" /\ judges[2].state = "ok"
  /\ mpc = "returned"

\* The model calls that have succeeded so far.
SucceededModels ==
  {m \in DOMAIN calls : calls[m] # Null /\ calls[m][1].success}

\* The fan-out has ended with at least one success and fewer successes than
\* min_models_for_judge.
EndedBelowThreshold ==
  /\ mpc \in {"debate", "judge", "returned"}
  /\ Cardinality(SucceededModels) >= 1
  /\ Cardinality(SucceededModels) < mcfg.minModelsForJudge

\* No judge call while the fan-out runs below the threshold; after it, the
\* first judge call is over all the successes; one success, no debate.
LateJudgeOverAllSuccesses ==
  /\ (mpc = "fanout" /\ Cardinality(SucceededModels) < mcfg.minModelsForJudge)
       => judges = <<>>
  /\ EndedBelowThreshold =>
       /\ Len(judges) >= 1
       /\ {judges[1].input[i].model : i \in DOMAIN judges[1].input} = SucceededModels
       /\ Len(judges[1].input) = Cardinality(SucceededModels)
       /\ judges[1].debateRounds = <<>>
       /\ Cardinality(SucceededModels) = 1 => (mpc # "debate" /\ debateRounds = <<>>)

C15_TimeoutIsNotRetried ==
  harness = "done" =>
    \A k \in 0..args.maxRetries :
      (k < ret.invocations /\ args.attempts[k + 1].kind = "timeout")
        => ret.invocations = k + 1

(***************************************************************************)
(* Claims about the debate engine                                          *)
(***************************************************************************)
\* The remote calls of a debate: one feedback call and one refinement call
\* per answer in every round entered.
DebateRemoteCalls ==
  Len(ret.debateRounds) * (1 + Len(args.initialAnswers))

\* C31: when config.json sets max_debate_rounds to 0, the Debate Engine
\* performs no round and makes no remote call: debateRounds = [] and
\* finalAnswers equal the input answers.
C31_ZeroRoundsIsIdentity ==
  (harness = "done" /\ args.parsed = 0) =>
    /\ ret.debateRounds = <<>>
    /\ DebateRemoteCalls = 0
    /\ ret.finalAnswers = args.initialAnswers

\* What the loop itself does when it is handed maxDebateRounds = 0 is not
\* reachable from loadConfig; for every configured value the rounds run are
\* the configured number, with 0 replaced by the default.
ConfiguredZeroRunsDefaultRounds ==
  (harness = "done" /\ args.parsed = 0) =>
    Len(ret.debateRounds) = DefaultMaxDebateRounds

\* C16: conductIterativeDebate returns after exactly R = max_debate_rounds
\* rounds: debateRounds has length R and its round indices are 1, 2, ..., R
\* in that order, for every pattern of feedback and refinement failures.
C16_ExactlyRRounds ==
  harness = "done" =>
    /\ Len(ret.debateRounds) = args.maxDebateRounds
    /\ \A i \in DOMAIN ret.debateRounds : ret.debateRounds[i].round = i

\* A two-round debate in which a feedback call and every refinement of the
\* first round failed.
C16_Witness ==
  /\ harness = "done" /\ args.maxDebateRounds = 2
  /\ ~args.outcomes[1].feedback /\ args.outcomes[1].refined = {}
  /\ Len(ret.debateRounds) = 2

\* The answers held before round r: the initial ones, or those of round r-1.
AnswersBefore(r) ==
  IF r = 1 THEN args.initialAnswers ELSE ret.debateRounds[r - 1].answers

\* C17: in each round a model whose refinement call fails keeps exactly the
\* answer it held before the round, recorded unchanged in the round's
\* answers, and a model whose call succeeds holds the new answer; if every
\* refinement fails in every round, finalAnswers equals the initial answers.
C17_FailedRefinementKeepsAnswer ==
  harness = "done" =>
    /\ \A r \in DOMAIN ret.debateRounds :
         /\ Len(ret.debateRounds[r].answers) = Len(args.initialAnswers)
         /\ \A i \in DOMAIN args.initialAnswers :
              LET before == AnswersBefore(r)[i]
                  after == ret.debateRounds[r].answers[i]
              IN /\ after.model = before.model
                 /\ IF before.model \in args.outcomes[r].refined
                    THEN after.answer = <<"refined", before.model, r>>
                    ELSE after.answer = before.answer
    /\ Len(ret.debateRounds) >= 1 =>
         ret.finalAnswers = ret.debateRounds[Len(ret.debateRounds)].answers
    /\ (\A r \in DOMAIN args.outcomes : args.outcomes[r].refined = {})
         => ret.finalAnswers = args.initialAnswers

\* Two rounds, three models: model 1 fails in both rounds, model 2 succeeds
\* in round 1 and fails in round 2, and keeps its round-1 answer.
C17_Witness ==
  /\ harness = "done" /\ Len(ret.debateRounds) = 2
  /\ Len(args.initialAnswers) = 3
  /\ args.outcomes[1].refined = {2, 3} /\ args.outcomes[2].refined = {3}
  /\ ret.finalAnswers[1].answer = AnswerOf(1)
  /\ ret.finalAnswers[2].answer = <<"refined", 2, 1>>
  /\ ret.debateRounds[2].answers[2].answer = <<"refined", 2, 1>>

\* C18: conductIterativeDebate never fails: it returns a result for every
\* combination of feedback and refinement failures; a failed judge-feedback
\* call is replaced by the generic feedback, and the refinement step of that
\* round is still carried out for every model.
C18_DebateNeverFails ==
  harness = "done" =>
    /\ ~ret.threw
    /\ DOMAIN ret.debateRounds = DOMAIN args.outcomes
    /\ \A r \in DOMAIN ret.debateRounds :
         /\ ret.debateRounds[r].judgeFeedback =
              IF args.outcomes[r].feedback THEN <<"feedback", r>>
              ELSE GenericFeedback
         /\ ~args.outcomes[r].feedback =>
              \A i \in DOMAIN ret.debateRounds[r].answers :
                ret.debateRounds[r].answers[i].model \in args.outcomes[r].refined
                  => ret.debateRounds[r].answers[i].answer =
                       <<"refined", ret.debateRounds[r].answers[i].model, r>>

\* Every feedback call failed and every refinement call succeeded.
C18_Witness ==
  /\ harness = "done" /\ Len(ret.debateRounds) = 2
  /\ Len(args.initialAnswers) >= 2
  /\ \A r \in 1..2 :
       /\ ~args.outcomes[r].feedback
       /\ ret.debateRounds[r].judgeFeedback = GenericFeedback
       /\ \A i \in DOMAIN ret.finalAnswers :
            ret.debateRounds[r].answers[i].answer = <<"refined", i, r>>

(***************************************************************************)
(* Claims about the judge                                                  *)
(***************************************************************************)
\* The answers with the model of answer i replaced by ids[i].
WithModels(answers, ids) ==
  [i \in DOMAIN answers |-> [model |-> ids[i], answer |-> answers[i].answer]]

\* text occurs in message as a contiguous part.
OccursIn(text, message) ==
  \E k \in 0..(Len(message) - Len(text)) :
    SubSeq(message, k + 1, k + Len(text)) = text

\* C19: the messages judgeAndMerge sends do not depend on model identifiers:
\* an invocation with the same prompt, answer contents and order and debate
\* feedback but any other model ids yields the same system and user
\* messages, and the answers are labelled Answer A, Answer B, ... by position.
C19_JudgeMessagesIgnoreModelIds ==
  harness = "done" =>
    /\ \A ids \in [DOMAIN args.successfulAnswers -> 1..MaxModels] :
         judgeMessages(args.userPrompt,
                       WithModels(args.successfulAnswers, ids),
                       [r \in DOMAIN args.debateRounds |->
                          [args.debateRounds[r] EXCEPT
                             !.answers = WithModels(@, ids)]],
                       args.isResearchMode) = ret
    /\ \A i \in DOMAIN args.successfulAnswers :
         OccursIn(<<"---", "Answer", Letters[i], ":">>
                    \o truncateAnswer(args.successfulAnswers[i].answer,
                                      MaxAnswerLength),
                  ret.user)

\* Two answers, given by models 2 and 1 in this order, after a debate round.
C19_Witness ==
  /\ harness = "done" /\ ~ret.threw
  /\ Len(args.successfulAnswers) = 2 /\ Len(args.debateRounds) = 1
  /\ args.successfulAnswers[1].model = 2 /\ args.successfulAnswers[2].model = 1
  /\ args.successfulAnswers[1].answer # args.successfulAnswers[2].answer
  /\ OccursIn(<<"Answer", "B", ":">> \o args.successfulAnswers[2].answer, ret.user)

(***************************************************************************)
(* Claims about the job store                                              *)
(***************************************************************************)
IsProgressValue(progress) ==
  progress # NaN /\ progress % 5 = 0 /\ 0 <= progress /\ progress <= 100

ProgressMultipleOf5UnlessNaN ==
  \A j \in DOMAIN jobs :
    IF args.op = "updateProgress" /\ args.jobId = j /\ args.progress = NaN
    THEN jobs[j].progress = NaN
    ELSE IsProgressValue(jobs[j].progress)

\* 103 is rounded to 105 and clamped to 100.
ProgressClamped ==
  /\ args.op = "updateProgress" /\ args.progress = 103
  /\ jobs[1].progress = 100

(***************************************************************************)
(* Claims about failed jobs, timestamps and shutdown                       *)
(***************************************************************************)
\* C21: every failed job has a non-null error {code, message} and
\* completedAt set.
C21_FailedJobHasError ==
  \A j \in DOMAIN jobs :
    jobs[j].status = FAILED =>
      /\ jobs[j].error # Null
      /\ DOMAIN jobs[j].error[1] = {"code", "message"}
      /\ jobs[j].completedAt # Undefined

\* A job has failed and all its progress timers have fired since.
C21_Witness ==
  \E j \in DOMAIN jobs :
    /\ jobs[j].status = FAILED /\ jobs[j].error # Null
    /\ \A t \in timers : t.job # j
    /\ jobs[j].updatedAt > jobs[j].completedAt

\* C22: every failed job has progress = 0, also after the worker's progress
\* timers for that job have fired.
C22_FailedJobHasZeroProgress ==
  \A j \in DOMAIN jobs : jobs[j].status = FAILED => jobs[j].progress = 0

\* C23: every running, completed or failed job has startedAt set, and
\* startedAt, once set, never changes.
C23_StartedAtSetOnce ==
  /\ [](\A j \in DOMAIN jobs :
          jobs[j].status \in {RUNNING, COMPLETED, FAILED} =>
            jobs[j].startedAt # Undefined)
  /\ [][\A j \in DOMAIN jobs :
          jobs[j].startedAt # Undefined =>
            jobs'[j].startedAt = jobs[j].startedAt]_vars

\* A job has run to completion and another to failure; both kept the start
\* stamp of their transition to running (the first update of the job).
C23_Witness ==
  \E i, j \in DOMAIN jobs :
    /\ jobs[i].status = COMPLETED /\ jobs[j].status = FAILED
    /\ jobs[i].startedAt = 1 /\ jobs[j].startedAt = 1
    /\ jobs[i].completedAt > 1 /\ jobs[j].completedAt > 1

\* C24: once the shutdown signal has been handled no job moves from queued
\* to running, by polling or by an immediate trigger, and a job running at
\* the signal is completed or failed when the process exits.
C24_GracefulShutdown ==
  /\ [][proc # "up" =>
          \A j \in DOMAIN jobs :
            ~(jobs[j].status = QUEUED /\ jobs'[j].status = RUNNING)]_vars
  /\ [](proc = "exited" =>
          \A j \in DOMAIN jobs : jobs[j].status # RUNNING)

\* The part of C24 that concerns the draining alone.
RunningJobDrainedAtExit ==
  proc = "exited" => \A j \in DOMAIN jobs : jobs[j].status # RUNNING

(***************************************************************************)
(* Claims about the research pipeline                                      *)
(***************************************************************************)
\* The query models have been called and none returned a non-empty answer.
NoModelAnswered ==
  /\ harness \notin {"idle", "models"}
  /\ Len(SuccessfulAnswers(ret.initialAnswers)) = 0

\* C25: when no query model returns a non-empty answer, performDeepResearch
\* fails with the 'no successful answers' error without invoking the debate
\* or the judge, and the job ends failed (with that error).
C25_NoSuccessfulAnswersFailsJob ==
  /\ [](NoModelAnswered =>
          /\ harness = "rejected" /\ ret.error = NoAnswersMessage
          /\ ret.debateCalls = 0 /\ ret.judgeCalls = 0
          /\ \A j \in DOMAIN jobs : jobs[j].status # COMPLETED)
  /\ NoModelAnswered ~>
       (/\ Len(jobs) = 1 /\ jobs[1].status = FAILED
        /\ jobs[1].error[1].message = NoAnswersMessage)

\* Both query models of the job failed (one timed out, one answered with an
\* empty content) and the job is failed.
C25_Witness ==
  /\ NoModelAnswered /\ Len(ret.initialAnswers) = 2
  /\ Len(jobs) = 1 /\ jobs[1].status = FAILED
  /\ jobs[1].error[1].code = "RESEARCH_FAILED"

\* performResearch has returned after a failed search or without API key.
SearchUnavailable == harness # "idle" /\ ret.searchFailed

\* C26: when the web search fails or no API key is configured, performResearch
\* returns a context with results = [] instead of failing and the pipeline
\* goes on; if answers, debate and judge succeed the job eventually becomes
\* completed with progress 100 and fallbackReason NO_EXTERNAL_SOURCES.
C26_SearchFailureRecovered ==
  /\ [](SearchUnavailable =>
          /\ ~ret.researchContext.threw
          /\ ret.researchContext.results = <<>>
          /\ ret.error # NetworkErrorMessage)
  /\ (SearchUnavailable /\ harness = "resolved" /\ pipelines # {}) ~>
       (/\ Len(jobs) = 1 /\ jobs[1].status = COMPLETED /\ jobs[1].progress = 100
        /\ jobs[1].result[1].metadata.fallbackReason = Some("NO_EXTERNAL_SOURCES"))
  /\ SearchUnavailable ~> (Len(jobs) = 1 /\ jobs[1].status \in Terminal)

\* The search request failed, a model answered, the debate ran, the judge
\* answered and the job is completed.
C26_Witness ==
  /\ SearchUnavailable /\ args.tavilyApiKey
  /\ ret.debateCalls = 1 /\ ret.judgeCalls = 1
  /\ Len(jobs) = 1 /\ jobs[1].status = COMPLETED /\ jobs[1].progress = 100
  /\ jobs[1].result[1].metadata.fallbackReason = Some("NO_EXTERNAL_SOURCES")

\* C28: the code stored in a failed job's error is RESEARCH_TIMEOUT if the
\* error message contains 'timeout', else RATE_LIMIT_EXCEEDED if it contains
\* 'rate limit', else INVALID_INPUT if it contains 'invalid', else
\* RESEARCH_FAILED; the message stored is the error's message.
C28_ErrorCodeByPrecedence ==
  \A j \in DOMAIN jobs :
    jobs[j].status = FAILED =>
      LET message == args.message
          code == jobs[j].error[1].code
          hasTimeout == \E i \in DOMAIN message : message[i] = "timeout"
          hasRateLimit == \E i \in DOMAIN message : message[i] = "rate limit"
          hasInvalid == \E i \in DOMAIN message : message[i] = "invalid"
      IN /\ jobs[j].error[1].message = message
         /\ hasTimeout => code = "RESEARCH_TIMEOUT"
         /\ (~hasTimeout /\ hasRateLimit) => code = "RATE_LIMIT_EXCEEDED"
         /\ (~hasTimeout /\ ~hasRateLimit /\ hasInvalid) => code = "INVALID_INPUT"
         /\ (~hasTimeout /\ ~hasRateLimit /\ ~hasInvalid) => code = "RESEARCH_FAILED"

\* An error whose message contains 'invalid', then 'rate limit', then
\* 'timeout' has failed the job with RESEARCH_TIMEOUT.
C28_Witness ==
  /\ harness = "call" /\ args.message = <<"invalid", "rate limit", "timeout">>
  /\ Len(jobs) = 1 /\ jobs[1].status = FAILED
  /\ jobs[1].error[1].code = "RESEARCH_TIMEOUT"

\* The position of the first occurrence of url in urls.
FirstIndex(urls, url) == CHOOSE i \in DOMAIN urls : urls[i] = url /\ \A k \in 1..(i - 1) : urls[k] # url

\* The urls in the order the aggregation meets them: those extracted from the
\* judge's answer, those of the per-model answers, those of the results.
CitationsMet ==
  extractCitations(args.finalAnswer, args.researchContext)
    \o Flatten([i \in DOMAIN args.modelAnswers |-> args.modelAnswers[i].citations])
    \o [i \in DOMAIN args.researchContext.results |->
          args.researchContext.results[i].url]

\* C27: the citations hold no url twice, hold the url of every research
\* result, and hold the urls extracted from the judge's answer, then those of
\* the per-model answers, then the remaining result urls, each at its first
\* occurrence; aggregating the same inputs again yields the same sequence.
C27_CitationsDeduplicatedInOrder ==
  harness = "done" =>
    /\ \A i, j \in DOMAIN ret : i # j => ret[i] # ret[j]
    /\ \A i \in DOMAIN args.researchContext.results :
         ArrayIncludes(ret, args.researchContext.results[i].url)
    /\ {ret[i] : i \in DOMAIN ret} = {CitationsMet[i] : i \in DOMAIN CitationsMet}
    /\ \A i, j \in DOMAIN ret :
         i < j => FirstIndex(CitationsMet, ret[i]) < FirstIndex(CitationsMet, ret[j])
    /\ extractAndAggregateCitations(args.finalAnswer, args.researchContext,
                                    args.modelAnswers) = ret

\* The judge cites source 2, a model cites source 1, the results are u1, u2:
\* the citations are u2, u1.
C27_Witness ==
  /\ harness = "done"
  /\ args.finalAnswer = <<"[2]", "text">>
  /\ Len(args.researchContext.results) = 2
  /\ args.researchContext.results[1].url = "u1"
  /\ \E i \in DOMAIN args.modelAnswers : args.modelAnswers[i].citations = <<"u1">>
  /\ ret = <<"u2", "u1">>

(***************************************************************************)
(* Claims about updateProgress                                             *)
(***************************************************************************)
\* The multiple of 5 nearest to the integer p (unique: an integer is never
\* halfway between two multiples of 5), clamped to [0, 100].
NearestMultipleOf5Clamped(p) ==
  LET m == CHOOSE k \in {5 * q : q \in -2..22} : 2 * (k - p) < 5 /\ 2 * (p - k) < 5
  IN IF m < 0 THEN 0 ELSE IF m > 100 THEN 100 ELSE m

\* C32: for every integer p of a range that includes negative values and
\* values above 100, updateProgress(jobId, p) on an existing job leaves the
\* job's progress at round(p/5)*5 clamped to [0, 100] and leaves the job's
\* status, result and error unchanged.
C32_UpdateProgressRoundsAndClamps ==
  [][(args'.op = "updateProgress" /\ args'.progress # NaN) =>
       LET j == args'.jobId
       IN /\ jobs'[j].progress = NearestMultipleOf5Clamped(args'.progress)
          /\ jobs'[j].status = jobs[j].status
          /\ jobs'[j].result = jobs[j].result
          /\ jobs'[j].error = jobs[j].error]_vars

\* updateProgress(103) on a failed job: the progress goes from 0 to 100
\* and the job is still failed with its error.
C32_Witness ==
  /\ args.op = "updateProgress" /\ args.progress = 103
  /\ jobs[1].progress = 100
  /\ jobs[1].status = FAILED /\ jobs[1].error # Null

(***************************************************************************)
(* Claims about pipeline timeouts                                          *)
(***************************************************************************)
\* The pipeline was rejected with the Remote Model Client's Timeout error
\* (raised by the judge call) and the worker has recorded the failure.
FailedByTimeout ==
  /\ harness = "rejected" /\ ret.judgeCalls = 1 /\ ret.error = TimeoutMessage
  /\ Len(jobs) = 1 /\ jobs[1].status = FAILED

\* C33: when the research pipeline fails because a remote call (the judge
\* call) raised the Timeout error, the job ends failed with
\* error.code = RESEARCH_TIMEOUT.
C33_TimeoutIsResearchTimeout ==
  FailedByTimeout => jobs[1].error[1].code = "RESEARCH_TIMEOUT"

\* The code such a job does get.
TimeoutIsResearchFailed ==
  FailedByTimeout =>
    jobs[1].error = Some([code |-> "RESEARCH_FAILED", message |-> TimeoutMessage])

(***************************************************************************)
(* Claims about retries                                                    *)
(***************************************************************************)
\* The first of the maxRetries + 1 requests the gateway answers with a
\* non-empty content (0: none of them).
FirstSuccessfulAttempt ==
  LET answered == {i \in 1..(args.maxRetries + 1) : callModel(args.attempts[i]).ok}
  IN IF answered = {} THEN 0
     ELSE CHOOSE i \in answered : \A k \in answered : i <= k

\* The failures that stand before the first success (all of them when no
\* request succeeds).
FailuresInPlay ==
  IF FirstSuccessfulAttempt = 0 THEN 1..(args.maxRetries + 1)
  ELSE 1..(FirstSuccessfulAttempt - 1)

\* callModelWithRetry went on until the first success or until maxRetries + 1
\* attempts had failed, and failed with the error of the last attempt.
RetriedToTheEnd ==
  /\ ret.invocations <= args.maxRetries + 1
  /\ (args.maxRetries = 0 => ret.invocations = 1)
  /\ IF FirstSuccessfulAttempt # 0
     THEN /\ ret.ok
          /\ ret.invocations = FirstSuccessfulAttempt
          /\ ret.response = callModel(args.attempts[FirstSuccessfulAttempt]).response
     ELSE /\ ~ret.ok
          /\ ret.invocations = args.maxRetries + 1
          /\ ret.error = callModel(args.attempts[args.maxRetries + 1]).error

StartedByPollingTick(j) ==
  /\ j \in DOMAIN jobs /\ jobs[j].status = QUEUED
  /\ jobs'[j].status = RUNNING
  /\ immediates' = immediates

\* C36: whenever a polling tick starts a job, the job it starts is the
\* earliest-created job among those queued at that moment (jobs are numbered
\* in creation order).
C36_PollingStartsOldestQueued ==
  [][\A j \in DOMAIN jobs :
       StartedByPollingTick(j) =>
         /\ \A i \in DOMAIN jobs :
              jobs[i].status = QUEUED => i >= j
         /\ \A i \in DOMAIN jobs : i # j => jobs'[i].status = jobs[i].status]_vars

\* Two jobs were queued when a polling tick fired: the first was started by
\* the tick (its setImmediate callback is still due), the second is queued.
C36_Witness ==
  /\ Len(jobs) = 2
  /\ jobs[1].status = RUNNING /\ 1 \in immediates
  /\ jobs[2].status = QUEUED

(***************************************************************************)
(* Claims about the fallback reason                                        *)
(***************************************************************************)
\* C37: in every completed job's result, metadata.fallbackReason is
\* NO_EXTERNAL_SOURCES exactly when researchSources is empty,
\* NO_CITATIONS_EXTRACTED exactly when researchSources is non-empty and
\* citations is empty, and null exactly when both are non-empty.
C37_FallbackReasonBySourcesAndCitations ==
  \A j \in DOMAIN jobs :
    jobs[j].status = COMPLETED =>
      LET result == jobs[j].result[1]
          reason == result.metadata.fallbackReason
      IN /\ (reason = Some("NO_EXTERNAL_SOURCES")) <=> (result.researchSources = <<>>)
         /\ (reason = Some("NO_CITATIONS_EXTRACTED")) <=>
               (result.researchSources # <<>> /\ result.citations = <<>>)
         /\ (reason = Null) <=>
               (result.researchSources # <<>> /\ result.citations # <<>>)

\* A job completed with sources and citations, hence without fallback reason.
C37_Witness ==
  /\ Len(jobs) = 1 /\ jobs[1].status = COMPLETED
  /\ jobs[1].result[1].researchSources # <<>>
  /\ jobs[1].result[1].citations # <<>>
  /\ jobs[1].result[1].metadata.fallbackReason = Null

\* A job completed without sources.
CompletedWithoutSources ==
  /\ Len(jobs) = 1 /\ jobs[1].status = COMPLETED
  /\ jobs[1].result[1].researchSources = <<>>
  /\ jobs[1].result[1].metadata.fallbackReason = Some("NO_EXTERNAL_SOURCES")

\* The pipeline has resolved with at least one research result.
ResolvedWithResults ==
  harness = "resolved" /\ ret.researchContext.results # <<>>

\* C38: whenever the research context of a pipeline run has at least one
\* result, the final citations of that run are non-empty, so no completed
\* job ever carries metadata.fallbackReason = NO_CITATIONS_EXTRACTED.
C38_NoCitationsExtractedNeverReported ==
  /\ ResolvedWithResults => ret.citations # <<>>
  /\ \A j \in DOMAIN jobs :
       jobs[j].status = COMPLETED =>
         jobs[j].result[1].metadata.fallbackReason # Some("NO_CITATIONS_EXTRACTED")

\* A run with research results in which neither a model answer nor the
\* final answer cites a source, and whose job is completed.
C38_Witness ==
  /\ ResolvedWithResults
  /\ ret.finalAnswer = <<"text">>
  /\ \A i \in DOMAIN ret.initialAnswers : ret.initialAnswers[i].citations = <<>>
  /\ Len(jobs) = 1 /\ jobs[1].status = COMPLETED
  /\ jobs[1].result[1].citations # <<>>

(***************************************************************************)
(* Claims about finished jobs                                              *)
(***************************************************************************)
\* C40: once a job has reached completed or failed, no Job Store mutation
\* is applied to it any more: its progress, currentIteration,
\* estimatedRemainingSeconds and updatedAt keep the values they had at the
\* terminal transition, so repeated getJob calls return equal snapshots.
C40_TerminalJobIsFrozen ==
  [][\A j \in DOMAIN jobs :
       jobs[j].status \in Terminal =>
         /\ jobs'[j].progress = jobs[j].progress
         /\ jobs'[j].currentIteration = jobs[j].currentIteration
         /\ jobs'[j].estimatedRemainingSeconds = jobs[j].estimatedRemainingSeconds
         /\ jobs'[j].updatedAt = jobs[j].updatedAt
         /\ getJob(jobs', j) = getJob(jobs, j)]_vars

\* What is frozen at the terminal transition: the status, the result, the
\* error and the timestamps startedAt and completedAt.
TerminalJobKeepsOutcome ==
  [][\A j \in DOMAIN jobs :
       jobs[j].status \in Terminal =>
         /\ jobs'[j].status = jobs[j].status
         /\ jobs'[j].result = jobs[j].result
         /\ jobs'[j].error = jobs[j].error
         /\ jobs'[j].startedAt = jobs[j].startedAt
         /\ jobs'[j].completedAt = jobs[j].completedAt]_vars

\* A completed job whose progress a late timer has set back to 30.
CompletedJobRewritten ==
  \E j \in DOMAIN jobs :
    /\ jobs[j].status = COMPLETED /\ jobs[j].progress = 30
    /\ jobs[j].currentIteration = 2
    /\ jobs[j].updatedAt > jobs[j].completedAt

====
